---- MODULE Spec2Model ----
(***************************************************************************)
(* SwiftRemit: the remittance settlement contract of src/src/lib.rs as a   *)
(* state machine.  One action per contract entry point; every invocation   *)
(* runs to completion, and an invocation that returns an error (or whose   *)
(* token transfer or authorization aborts) commits nothing.                *)
(***************************************************************************)
EXTENDS Integers, Sequences, FiniteSets, TLC

(***************************************************************************)
(* Bounds of the model.                                                    *)
(***************************************************************************)
\* u64::MAX scaled down: `counter.checked_add(1)` fails at this value.
U64_MAX == 101
\* Remittances created under the small-input specifications.
MaxRemittances == 2
\* i128::MAX scaled down; every checked i128 operation fails beyond it.
I128_MAX == 20000000
\* Largest ledger timestamp the clock is advanced to.
MaxTime == 1
\* Tokens minted to the sender before the first call.
Mint == 20000

\* storage.rs is not part of src/; the reference value of the spec (4.3).
MAX_BATCH_SIZE == 100

(***************************************************************************)
(* Principals, inputs.                                                     *)
(***************************************************************************)
Admin == "admin"
Sender == "sender"
Agent == "agent"
Contract == "contract"
Principals == {Admin, Sender, Agent}
Accounts == Principals \cup {Contract}

None == -1          \* Option::None of `expiry`, and "no value stored"
NoAddress == "none"

\* the authorizations an invocation carries (mock_all_auths = Principals)
AuthInputs == {Principals, {}}
\* batch_settle asks for no authorization: its calls are made with none
BatchAuthInputs == {{}}
FeeBpsInputs == {250, 10001}
AmountInputs == {0, 1000}
ExpiryInputs == {None, 0}
IdInputs == 1..(MaxRemittances + 1)

VARIABLES
    admin,             \* DataKey::Admin, NoAddress until initialize
    usdc_token,        \* DataKey::UsdcToken
    fee_bps,           \* DataKey::PlatformFeeBps, None until initialize
    counter,           \* DataKey::RemittanceCounter, None until initialize
    accumulated_fees,  \* DataKey::AccumulatedFees, None until initialize
    paused,            \* DataKey::Paused
    agent_registered,  \* DataKey::AgentRegistered(agent)
    remittances,       \* DataKey::Remittance(id): id -> Remittance
    settlement_hash,   \* DataKey::SettlementHash(id): the ids marked
    balance,           \* the token contract's balances
    now,               \* env.ledger().timestamp()
    last,              \* the last invocation: entry point, arguments, result
    events             \* the events that invocation's code emitted

vars == <<admin, usdc_token, fee_bps, counter, accumulated_fees, paused,
          agent_registered, remittances, settlement_hash, balance, now,
          last, events>>

store == <<admin, usdc_token, fee_bps, counter, accumulated_fees, paused,
           agent_registered, remittances, settlement_hash, balance>>

(***************************************************************************)
(* types.rs                                                                *)
(***************************************************************************)
Pending == "Pending"
Completed == "Completed"
Cancelled == "Cancelled"
RemittanceStatus == {Pending, Completed, Cancelled}

Remittance(id, sender, agent, amount, fee, status, expiry) ==
    [id |-> id, sender |-> sender, agent |-> agent, amount |-> amount,
     fee |-> fee, status |-> status, expiry |-> expiry]

(***************************************************************************)
(* Checked arithmetic: the value, or Overflow (None never is a result of   *)
(* the operations below on the values the contract handles).               *)
(***************************************************************************)
Overflow == -2

checked_mul(a, b) ==
    IF b > 0 /\ a > I128_MAX \div b THEN Overflow ELSE a * b

\* i128 division truncates toward zero (the divisor is the positive 10000)
checked_div(a, b) ==
    IF b = 0 THEN Overflow
    ELSE IF a < 0 THEN -((-a) \div b)
    ELSE a \div b

checked_add(a, b) ==
    IF a + b > I128_MAX THEN Overflow ELSE a + b

checked_sub(a, b) ==
    IF a - b < -I128_MAX - 1 THEN Overflow ELSE a - b

\* the sum left at its first operand
checked_add_u64_stuck(a, b) == a

checked_add_u64(a, b) ==
    IF a + b > U64_MAX THEN Overflow ELSE a + b

(***************************************************************************)
(* The invocation record and the events.                                   *)
(***************************************************************************)
\* op: the entry point; id: the remittance id passed (or returned by
\* create_remittance, 0 if none); ids: the list passed to batch_settle;
\* arg: the amount or fee rate passed; err: Ok or the error returned;
\* settled: the settled_ids batch_settle returned; auth: the principals
\* whose authorization the invocation carried; ret: the record a query
\* returned, as a list of one element (empty for every other invocation)
Call(op, id, ids, arg, err) ==
    [op |-> op, id |-> id, ids |-> ids, arg |-> arg, err |-> err,
     settled |-> << >>, auth |-> {}, ret |-> << >>]

AuthCall(op, id, ids, arg, err, auth) ==
    [Call(op, id, ids, arg, err) EXCEPT !.auth = auth]

Event(kind, id, x, y) == [kind |-> kind, id |-> id, x |-> x, y |-> y]

Ok == "Ok"

(***************************************************************************)
(* storage.rs and validation.rs (not part of src/): the accessors as the   *)
(* callers in lib.rs use them.                                             *)
(***************************************************************************)
has_admin == admin # NoAddress

\* get_admin, get_usdc_token, get_platform_fee_bps, get_remittance_counter,
\* get_accumulated_fees: the stored value, or an error while nothing is stored
get_config_err == IF has_admin THEN Ok ELSE "NotInitialized"

get_remittance_err(remittance_id) ==
    IF remittance_id \in DOMAIN remittances THEN Ok ELSE "RemittanceNotFound"

has_settlement_hash(remittance_id) == remittance_id \in settlement_hash

is_agent_registered(a) == agent_registered[a]

is_paused == paused

\* the entry point get_platform_fee_bps on an initialized contract
get_platform_fee_bps == fee_bps

\* every Address value the host hands to the contract is well formed
validate_address(a) == Ok

\* Address::require_auth: aborts the invocation unless `p` authorized it
\* an authorization check that lets every invocation pass
require_auth_err_none(p, auth) == Ok

require_auth_err(p, auth) == IF p \in auth THEN Ok ELSE "Unauthorized"

\* token::Client::transfer: aborts the invocation on an insufficient balance
transfer_err(bal, from, amount) ==
    IF amount < 0 \/ bal[from] < amount THEN "TransferFailed" ELSE Ok

transfer(bal, from, to, amount) ==
    IF from = to THEN bal
    ELSE [bal EXCEPT ![from] = @ - amount, ![to] = @ + amount]

(***************************************************************************)
(* Init: the contract deployed and not initialized, the sender funded.     *)
(***************************************************************************)
Init ==
    /\ admin = NoAddress
    /\ usdc_token = NoAddress
    /\ fee_bps = None
    /\ counter = None
    /\ accumulated_fees = None
    /\ paused = FALSE
    /\ agent_registered = [a \in Principals |-> FALSE]
    /\ remittances = << >>
    /\ settlement_hash = {}
    /\ balance = [a \in Accounts |-> IF a = Sender THEN Mint ELSE 0]
    /\ now = 0
    /\ last = Call("deploy", 0, << >>, 0, Ok)
    /\ events = << >>

\* An invocation that fails commits no storage write and no transfer;
\* `emitted` is what its code had emitted when it returned.
Fail(call, emitted) ==
    /\ last' = call
    /\ events' = emitted
    /\ UNCHANGED <<store, now>>

(***************************************************************************)
(* Admin / control plane.                                                  *)
(***************************************************************************)
\* initialize without its has_admin check
initialize_err_again(fee) ==
    IF fee > 10000 THEN "InvalidFeeBps" ELSE Ok

initialize_err(fee) ==
    IF has_admin THEN "AlreadyInitialized"
    ELSE IF fee > 10000 THEN "InvalidFeeBps"
    ELSE Ok

initialize(a, token, fee) ==
    LET err == initialize_err(fee)
        call == Call("initialize", 0, << >>, fee, err)
    IN  IF err # Ok THEN Fail(call, << >>)
        ELSE /\ admin' = a
             /\ usdc_token' = token
             /\ fee_bps' = fee
             /\ counter' = 0
             /\ accumulated_fees' = 0
             /\ last' = call
             /\ events' = << >>
             /\ UNCHANGED <<paused, agent_registered, remittances,
                            settlement_hash, balance, now>>

admin_err(auth) ==
    IF get_config_err # Ok THEN get_config_err
    ELSE require_auth_err(admin, auth)

set_agent_registered(a, flag, op, kind, auth) ==
    LET err == admin_err(auth)
        call == AuthCall(op, 0, << >>, 0, err, auth)
    IN  IF err # Ok THEN Fail(call, << >>)
        ELSE /\ agent_registered' = [agent_registered EXCEPT ![a] = flag]
             /\ last' = call
             /\ events' = <<Event(kind, 0, 0, 0)>>
             /\ UNCHANGED <<admin, usdc_token, fee_bps, counter,
                            accumulated_fees, paused, remittances,
                            settlement_hash, balance, now>>

register_agent(a, auth) ==
    set_agent_registered(a, TRUE, "register_agent", "agent_registered", auth)

remove_agent(a, auth) ==
    set_agent_registered(a, FALSE, "remove_agent", "agent_removed", auth)

\* update_fee refusing the rate 10000 as well
update_fee_err_strict(fee, auth) ==
    IF admin_err(auth) # Ok THEN admin_err(auth)
    ELSE IF fee >= 10000 THEN "InvalidFeeBps"
    ELSE Ok

\* update_fee without its range check
update_fee_err_unchecked(fee, auth) ==
    IF admin_err(auth) # Ok THEN admin_err(auth)
    ELSE Ok

update_fee_err(fee, auth) ==
    IF admin_err(auth) # Ok THEN admin_err(auth)
    ELSE IF fee > 10000 THEN "InvalidFeeBps"
    ELSE Ok

\* the old fee is read back after set_platform_fee_bps has stored the new one
update_fee_old_fee(fee) == fee

update_fee(fee, auth) ==
    LET err == update_fee_err(fee, auth)
        call == AuthCall("update_fee", 0, << >>, fee, err, auth)
    IN  IF err # Ok THEN Fail(call, << >>)
        ELSE /\ fee_bps' = fee
             /\ last' = call
             /\ events' = <<Event("fee_updated", 0, update_fee_old_fee(fee), fee)>>
             /\ UNCHANGED <<admin, usdc_token, counter, accumulated_fees,
                            paused, agent_registered, remittances,
                            settlement_hash, balance, now>>

set_paused(flag, op, kind, auth) ==
    LET err == admin_err(auth)
        call == AuthCall(op, 0, << >>, 0, err, auth)
    IN  IF err # Ok THEN Fail(call, << >>)
        ELSE /\ paused' = flag
             /\ last' = call
             /\ events' = <<Event(kind, 0, 0, 0)>>
             /\ UNCHANGED <<admin, usdc_token, fee_bps, counter,
                            accumulated_fees, agent_registered, remittances,
                            settlement_hash, balance, now>>

pause(auth) == set_paused(TRUE, "pause", "paused", auth)

unpause(auth) == set_paused(FALSE, "unpause", "unpaused", auth)

\* withdraw_fees refusing only a negative total
withdraw_fees_err_zero_allowed(to, auth) ==
    IF admin_err(auth) # Ok THEN admin_err(auth)
    ELSE IF validate_address(to) # Ok THEN validate_address(to)
    ELSE IF accumulated_fees < 0 THEN "NoFeesToWithdraw"
    ELSE transfer_err(balance, Contract, accumulated_fees)

withdraw_fees_err(to, auth) ==
    IF admin_err(auth) # Ok THEN admin_err(auth)
    ELSE IF validate_address(to) # Ok THEN validate_address(to)
    ELSE IF accumulated_fees <= 0 THEN "NoFeesToWithdraw"
    ELSE transfer_err(balance, Contract, accumulated_fees)

\* withdraw_fees paying the admin instead of the recipient `to`
withdraw_fees_to_admin(to, auth) ==
    LET err == withdraw_fees_err(to, auth)
        call == AuthCall("withdraw_fees", 0, << >>, 0, err, auth)
    IN  IF err # Ok THEN Fail(call, << >>)
        ELSE /\ balance' = transfer(balance, Contract, admin,
                                    accumulated_fees)
             /\ accumulated_fees' = 0
             /\ last' = call
             /\ events' = <<Event("fees_withdrawn", 0, accumulated_fees, 0)>>
             /\ UNCHANGED <<admin, usdc_token, fee_bps, counter, paused,
                            agent_registered, remittances, settlement_hash,
                            now>>

withdraw_fees(to, auth) ==
    LET err == withdraw_fees_err(to, auth)
        call == AuthCall("withdraw_fees", 0, << >>, 0, err, auth)
    IN  IF err # Ok THEN Fail(call, << >>)
        ELSE /\ balance' = transfer(balance, Contract, to, accumulated_fees)
             /\ accumulated_fees' = 0
             /\ last' = call
             /\ events' = <<Event("fees_withdrawn", 0, accumulated_fees, 0)>>
             /\ UNCHANGED <<admin, usdc_token, fee_bps, counter, paused,
                            agent_registered, remittances, settlement_hash,
                            now>>

(***************************************************************************)
(* Remittance registry.                                                    *)
(***************************************************************************)
\* a write of the record that loses its expiry
set_remittance_dropping_expiry(rems, remittance_id, r) ==
    [i \in DOMAIN rems \cup {remittance_id} |->
        IF i = remittance_id THEN [r EXCEPT !.expiry = None] ELSE rems[i]]

set_remittance(rems, remittance_id, r) ==
    [i \in DOMAIN rems \cup {remittance_id} |->
        IF i = remittance_id THEN r ELSE rems[i]]

\* amount.checked_mul(fee_bps).checked_div(10000)
\* the fee rounded up to the next unit
platform_fee_rounded_up(amount, bps) ==
    IF checked_mul(amount, bps) = Overflow THEN Overflow
    ELSE checked_div(checked_mul(amount, bps) + 9999, 10000)

platform_fee(amount, bps) ==
    IF checked_mul(amount, bps) = Overflow THEN Overflow
    ELSE checked_div(checked_mul(amount, bps), 10000)

\* create_remittance gated by the pause flag
create_remittance_err_gated(sender, agent, amount, auth) ==
    IF is_paused THEN "ContractPaused"
    ELSE IF require_auth_err(sender, auth) # Ok THEN require_auth_err(sender, auth)
    ELSE IF amount <= 0 THEN "InvalidAmount"
    ELSE IF ~is_agent_registered(agent) THEN "AgentNotRegistered"
    ELSE IF get_config_err # Ok THEN get_config_err
    ELSE IF platform_fee(amount, fee_bps) = Overflow THEN "Overflow"
    ELSE IF transfer_err(balance, sender, amount) # Ok
         THEN transfer_err(balance, sender, amount)
    ELSE IF checked_add_u64(counter, 1) = Overflow THEN "Overflow"
    ELSE Ok

\* create_remittance without its is_agent_registered check
create_remittance_err_any_agent(sender, agent, amount, auth) ==
    IF require_auth_err(sender, auth) # Ok THEN require_auth_err(sender, auth)
    ELSE IF amount <= 0 THEN "InvalidAmount"
    ELSE IF get_config_err # Ok THEN get_config_err
    ELSE IF platform_fee(amount, fee_bps) = Overflow THEN "Overflow"
    ELSE IF transfer_err(balance, sender, amount) # Ok
         THEN transfer_err(balance, sender, amount)
    ELSE IF checked_add_u64(counter, 1) = Overflow THEN "Overflow"
    ELSE Ok

create_remittance_err(sender, agent, amount, auth) ==
    IF require_auth_err(sender, auth) # Ok THEN require_auth_err(sender, auth)
    ELSE IF amount <= 0 THEN "InvalidAmount"
    ELSE IF ~is_agent_registered(agent) THEN "AgentNotRegistered"
    ELSE IF get_config_err # Ok THEN get_config_err
    ELSE IF platform_fee(amount, fee_bps) = Overflow THEN "Overflow"
    ELSE IF transfer_err(balance, sender, amount) # Ok
         THEN transfer_err(balance, sender, amount)
    ELSE IF checked_add_u64(counter, 1) = Overflow THEN "Overflow"
    ELSE Ok

\* create_remittance keeping the transfer it issued (lib.rs:113-115) when the
\* counter increment after it fails
create_remittance_transfer_kept(sender, agent, amount, expiry, auth) ==
    LET err == create_remittance_err(sender, agent, amount, auth)
        fee == platform_fee(amount, fee_bps)
        remittance_id == checked_add_u64(counter, 1)
        remittance == Remittance(remittance_id, sender, agent, amount, fee,
                                 Pending, expiry)
    IN  IF err # Ok /\ remittance_id = Overflow
                    /\ transfer_err(balance, sender, amount) = Ok
        THEN /\ balance' = transfer(balance, sender, Contract, amount)
             /\ last' = AuthCall("create_remittance", 0, << >>, amount, err,
                                 auth)
             /\ events' = << >>
             /\ UNCHANGED <<admin, usdc_token, fee_bps, counter,
                            accumulated_fees, paused, agent_registered,
                            remittances, settlement_hash, now>>
        ELSE IF err # Ok
        THEN Fail(AuthCall("create_remittance", 0, << >>, amount, err, auth),
                  << >>)
        ELSE /\ balance' = transfer(balance, sender, Contract, amount)
             /\ remittances' = set_remittance(remittances, remittance_id,
                                               remittance)
             /\ counter' = remittance_id
             /\ last' = AuthCall("create_remittance", remittance_id, << >>,
                                 amount, Ok, auth)
             /\ events' = <<Event("created", remittance_id, amount, fee)>>
             /\ UNCHANGED <<admin, usdc_token, fee_bps, accumulated_fees,
                            paused, agent_registered, settlement_hash, now>>

create_remittance(sender, agent, amount, expiry, auth) ==
    LET err == create_remittance_err(sender, agent, amount, auth)
        fee == platform_fee(amount, fee_bps)
        remittance_id == checked_add_u64(counter, 1)
        remittance == Remittance(remittance_id, sender, agent, amount, fee,
                                 Pending, expiry)
    IN  IF err # Ok
        THEN Fail(AuthCall("create_remittance", 0, << >>, amount, err, auth),
                  << >>)
        ELSE /\ balance' = transfer(balance, sender, Contract, amount)
             /\ remittances' = set_remittance(remittances, remittance_id,
                                               remittance)
             /\ counter' = remittance_id
             /\ last' = AuthCall("create_remittance", remittance_id, << >>,
                                 amount, Ok, auth)
             /\ events' = <<Event("created", remittance_id, amount, fee)>>
             /\ UNCHANGED <<admin, usdc_token, fee_bps, accumulated_fees,
                            paused, agent_registered, settlement_hash, now>>

\* `if current_time > expiry_time` under `if let Some(expiry_time)`
\* the expiry instant itself counted as expired
is_expired_at_expiry(r, current_time) ==
    r.expiry # None /\ current_time >= r.expiry

\* no remittance ever counted as expired
is_expired_never(r, current_time) == FALSE

is_expired(r, current_time) ==
    r.expiry # None /\ current_time > r.expiry

\* remittance.amount.checked_sub(remittance.fee)
\* the gross amount paid out
payout_amount_gross(r) == r.amount

\* the payout computed with the fee at the current rate
payout_amount_current_rate(r) ==
    checked_sub(r.amount, platform_fee(r.amount, fee_bps))

payout_amount(r) == checked_sub(r.amount, r.fee)

\* the amount cancel_remittance transfers back
\* the amount net of the fee refunded
refund_amount_net(r) == r.amount - r.fee

refund_amount(r) == r.amount

\* cancel_remittance without its status check
cancel_remittance_err_any_status(remittance_id, auth) ==
    IF get_remittance_err(remittance_id) # Ok
    THEN get_remittance_err(remittance_id)
    ELSE LET r == remittances[remittance_id] IN
         IF require_auth_err(r.sender, auth) # Ok
         THEN require_auth_err(r.sender, auth)
         ELSE transfer_err(balance, Contract, refund_amount(r))

\* cancel_remittance refusing only a remittance that is already Cancelled
cancel_remittance_err_completed_too(remittance_id, auth) ==
    IF get_remittance_err(remittance_id) # Ok
    THEN get_remittance_err(remittance_id)
    ELSE LET r == remittances[remittance_id] IN
         IF require_auth_err(r.sender, auth) # Ok
         THEN require_auth_err(r.sender, auth)
         ELSE IF r.status = Cancelled THEN "InvalidStatus"
         ELSE transfer_err(balance, Contract, refund_amount(r))

cancel_remittance_err(remittance_id, auth) ==
    IF get_remittance_err(remittance_id) # Ok
    THEN get_remittance_err(remittance_id)
    ELSE LET r == remittances[remittance_id] IN
         IF require_auth_err(r.sender, auth) # Ok
         THEN require_auth_err(r.sender, auth)
         ELSE IF r.status # Pending THEN "InvalidStatus"
         ELSE transfer_err(balance, Contract, refund_amount(r))

cancel_remittance(remittance_id, auth) ==
    LET err == cancel_remittance_err(remittance_id, auth)
        call == AuthCall("cancel_remittance", remittance_id, << >>, 0, err,
                         auth)
    IN  IF err # Ok THEN Fail(call, << >>)
        ELSE LET r == remittances[remittance_id] IN
             /\ balance' = transfer(balance, Contract, r.sender,
                                    refund_amount(r))
             /\ remittances' = set_remittance(remittances, remittance_id,
                                   [r EXCEPT !.status = Cancelled])
             /\ last' = call
             /\ events' = <<Event("cancelled", remittance_id, r.amount, 0)>>
             /\ UNCHANGED <<admin, usdc_token, fee_bps, counter,
                            accumulated_fees, paused, agent_registered,
                            settlement_hash, now>>

(***************************************************************************)
(* Settlement engine: confirm_payout.                                      *)
(***************************************************************************)
\* confirm_payout without its has_settlement_hash check
confirm_payout_err_no_hash_check(remittance_id, auth) ==
    IF is_paused THEN "ContractPaused"
    ELSE IF get_remittance_err(remittance_id) # Ok
    THEN get_remittance_err(remittance_id)
    ELSE LET r == remittances[remittance_id] IN
         IF require_auth_err(r.agent, auth) # Ok
         THEN require_auth_err(r.agent, auth)
         ELSE IF r.status # Pending THEN "InvalidStatus"
         ELSE IF is_expired(r, now) THEN "SettlementExpired"
         ELSE IF validate_address(r.agent) # Ok THEN validate_address(r.agent)
         ELSE IF payout_amount(r) = Overflow THEN "Overflow"
         ELSE IF transfer_err(balance, Contract, payout_amount(r)) # Ok
              THEN transfer_err(balance, Contract, payout_amount(r))
         ELSE IF checked_add(accumulated_fees, r.fee) = Overflow
              THEN "Overflow"
         ELSE Ok

\* confirm_payout without its pause check
confirm_payout_err_no_pause_check(remittance_id, auth) ==
    IF get_remittance_err(remittance_id) # Ok
    THEN get_remittance_err(remittance_id)
    ELSE LET r == remittances[remittance_id] IN
         IF require_auth_err(r.agent, auth) # Ok
         THEN require_auth_err(r.agent, auth)
         ELSE IF r.status # Pending THEN "InvalidStatus"
         ELSE IF has_settlement_hash(remittance_id) THEN "DuplicateSettlement"
         ELSE IF is_expired(r, now) THEN "SettlementExpired"
         ELSE IF validate_address(r.agent) # Ok THEN validate_address(r.agent)
         ELSE IF payout_amount(r) = Overflow THEN "Overflow"
         ELSE IF transfer_err(balance, Contract, payout_amount(r)) # Ok
              THEN transfer_err(balance, Contract, payout_amount(r))
         ELSE IF checked_add(accumulated_fees, r.fee) = Overflow
              THEN "Overflow"
         ELSE Ok

\* confirm_payout without its status check
confirm_payout_err_no_status_check(remittance_id, auth) ==
    IF is_paused THEN "ContractPaused"
    ELSE IF get_remittance_err(remittance_id) # Ok
    THEN get_remittance_err(remittance_id)
    ELSE LET r == remittances[remittance_id] IN
         IF require_auth_err(r.agent, auth) # Ok
         THEN require_auth_err(r.agent, auth)
         ELSE IF has_settlement_hash(remittance_id) THEN "DuplicateSettlement"
         ELSE IF is_expired(r, now) THEN "SettlementExpired"
         ELSE IF validate_address(r.agent) # Ok THEN validate_address(r.agent)
         ELSE IF payout_amount(r) = Overflow THEN "Overflow"
         ELSE IF transfer_err(balance, Contract, payout_amount(r)) # Ok
              THEN transfer_err(balance, Contract, payout_amount(r))
         ELSE IF checked_add(accumulated_fees, r.fee) = Overflow
              THEN "Overflow"
         ELSE Ok

\* confirm_payout with the expiry check moved before the status check
confirm_payout_err_expiry_first(remittance_id, auth) ==
    IF is_paused THEN "ContractPaused"
    ELSE IF get_remittance_err(remittance_id) # Ok
    THEN get_remittance_err(remittance_id)
    ELSE LET r == remittances[remittance_id] IN
         IF require_auth_err(r.agent, auth) # Ok
         THEN require_auth_err(r.agent, auth)
         ELSE IF is_expired(r, now) THEN "SettlementExpired"
         ELSE IF r.status # Pending THEN "InvalidStatus"
         ELSE IF has_settlement_hash(remittance_id) THEN "DuplicateSettlement"
         ELSE IF validate_address(r.agent) # Ok THEN validate_address(r.agent)
         ELSE IF payout_amount(r) = Overflow THEN "Overflow"
         ELSE IF transfer_err(balance, Contract, payout_amount(r)) # Ok
              THEN transfer_err(balance, Contract, payout_amount(r))
         ELSE IF checked_add(accumulated_fees, r.fee) = Overflow
              THEN "Overflow"
         ELSE Ok

confirm_payout_err(remittance_id, auth) ==
    IF is_paused THEN "ContractPaused"
    ELSE IF get_remittance_err(remittance_id) # Ok
    THEN get_remittance_err(remittance_id)
    ELSE LET r == remittances[remittance_id] IN
         IF require_auth_err(r.agent, auth) # Ok
         THEN require_auth_err(r.agent, auth)
         ELSE IF r.status # Pending THEN "InvalidStatus"
         ELSE IF has_settlement_hash(remittance_id) THEN "DuplicateSettlement"
         ELSE IF is_expired(r, now) THEN "SettlementExpired"
         ELSE IF validate_address(r.agent) # Ok THEN validate_address(r.agent)
         ELSE IF payout_amount(r) = Overflow THEN "Overflow"
         ELSE IF transfer_err(balance, Contract, payout_amount(r)) # Ok
              THEN transfer_err(balance, Contract, payout_amount(r))
         ELSE IF checked_add(accumulated_fees, r.fee) = Overflow
              THEN "Overflow"
         ELSE Ok

confirm_payout(remittance_id, auth) ==
    LET err == confirm_payout_err(remittance_id, auth)
        call == AuthCall("confirm_payout", remittance_id, << >>, 0, err,
                         auth)
    IN  IF err # Ok THEN Fail(call, << >>)
        ELSE LET r == remittances[remittance_id] IN
             /\ balance' = transfer(balance, Contract, r.agent,
                                    payout_amount(r))
             /\ accumulated_fees' = checked_add(accumulated_fees, r.fee)
             /\ remittances' = set_remittance(remittances, remittance_id,
                                   [r EXCEPT !.status = Completed])
             /\ settlement_hash' = settlement_hash \cup {remittance_id}
             /\ last' = call
             /\ events' = <<Event("completed", remittance_id,
                                  payout_amount(r), 0),
                            Event("settlement_completed", 0,
                                  payout_amount(r), 0)>>
             /\ UNCHANGED <<admin, usdc_token, fee_bps, counter, paused,
                            agent_registered, now>>

\* confirm_payout as a function of the settlement state `st` (records,
\* settlement marks, balances, accumulated fees): the error it returns and the
\* state it leaves
confirm_payout_in(st, remittance_id, auth) ==
    LET fail(err) == [err |-> err, st |-> st] IN
    IF is_paused THEN fail("ContractPaused")
    ELSE IF remittance_id \notin DOMAIN st.remittances
    THEN fail("RemittanceNotFound")
    ELSE LET r == st.remittances[remittance_id] IN
         IF require_auth_err(r.agent, auth) # Ok
         THEN fail(require_auth_err(r.agent, auth))
         ELSE IF r.status # Pending THEN fail("InvalidStatus")
         ELSE IF remittance_id \in st.settlement_hash
         THEN fail("DuplicateSettlement")
         ELSE IF is_expired(r, now) THEN fail("SettlementExpired")
         ELSE IF validate_address(r.agent) # Ok
         THEN fail(validate_address(r.agent))
         ELSE IF payout_amount(r) = Overflow THEN fail("Overflow")
         ELSE IF transfer_err(st.balance, Contract, payout_amount(r)) # Ok
         THEN fail(transfer_err(st.balance, Contract, payout_amount(r)))
         ELSE IF checked_add(st.accumulated_fees, r.fee) = Overflow
         THEN fail("Overflow")
         ELSE [err |-> Ok,
               st |-> [remittances |-> set_remittance(st.remittances,
                           remittance_id, [r EXCEPT !.status = Completed]),
                       settlement_hash |->
                           st.settlement_hash \cup {remittance_id},
                       balance |-> transfer(st.balance, Contract, r.agent,
                                            payout_amount(r)),
                       accumulated_fees |->
                           checked_add(st.accumulated_fees, r.fee)]]

(***************************************************************************)
(* Settlement engine: batch_settle.                                        *)
(***************************************************************************)
\* a list of exactly MAX_BATCH_SIZE entries counted as too large
batch_size_err_at_bound(batch_size) ==
    IF batch_size >= MAX_BATCH_SIZE THEN "BatchTooLarge" ELSE Ok

batch_size_err(batch_size) ==
    IF batch_size > MAX_BATCH_SIZE THEN "BatchTooLarge" ELSE Ok

\* One entry of phase 1, `seen_ids` holding the entries before it: Ok, or
\* the error the loop body returns.
\* the phase 1 checks of an entry without the has_settlement_hash check
batch_entry_err_no_hash_check(remittance_id, seen_ids) ==
    IF \E j \in 1..Len(seen_ids) : seen_ids[j] = remittance_id
    THEN "BatchValidationFailed"
    ELSE IF get_remittance_err(remittance_id) # Ok
    THEN get_remittance_err(remittance_id)
    ELSE LET r == remittances[remittance_id] IN
         IF r.status # Pending THEN "BatchValidationFailed"
         ELSE IF is_expired(r, now) THEN "BatchValidationFailed"
         ELSE validate_address(r.agent)

\* the entry checks without the look-up in seen_ids
batch_entry_err_no_seen_check(remittance_id, seen_ids) ==
    IF get_remittance_err(remittance_id) # Ok
    THEN get_remittance_err(remittance_id)
    ELSE LET r == remittances[remittance_id] IN
         IF r.status # Pending THEN "BatchValidationFailed"
         ELSE IF has_settlement_hash(remittance_id)
              THEN "BatchValidationFailed"
         ELSE IF is_expired(r, now) THEN "BatchValidationFailed"
         ELSE validate_address(r.agent)

batch_entry_err(remittance_id, seen_ids) ==
    IF \E j \in 1..Len(seen_ids) : seen_ids[j] = remittance_id
    THEN "BatchValidationFailed"
    ELSE IF get_remittance_err(remittance_id) # Ok
    THEN get_remittance_err(remittance_id)
    ELSE LET r == remittances[remittance_id] IN
         IF r.status # Pending THEN "BatchValidationFailed"
         ELSE IF has_settlement_hash(remittance_id)
              THEN "BatchValidationFailed"
         ELSE IF is_expired(r, now) THEN "BatchValidationFailed"
         ELSE validate_address(r.agent)

\* emit_batch_settlement_failed(&env, 16) precedes every return of
\* BatchValidationFailed; the errors propagated by `?` emit nothing
batch_entry_events(err) ==
    IF err = "BatchValidationFailed"
    THEN <<Event("batch_failed", 0, 16, 0)>> ELSE << >>

\* PHASE 1, the body of the loop for one entry: `st` holds the error so far,
\* seen_ids and validated_remittances.
\* a rejected entry passed over instead of returning its error
batch_validate_entry_skipping(remittance_id, st) ==
    LET err == batch_entry_err(remittance_id, st.seen_ids)
    IN  IF err # Ok THEN st
        ELSE [err |-> Ok,
              seen_ids |-> Append(st.seen_ids, remittance_id),
              validated |-> Append(st.validated, remittances[remittance_id])]

batch_validate_entry(remittance_id, st) ==
    LET err == batch_entry_err(remittance_id, st.seen_ids)
    IN  IF err # Ok THEN [st EXCEPT !.err = err]
        ELSE [err |-> Ok,
              seen_ids |-> Append(st.seen_ids, remittance_id),
              validated |-> Append(st.validated, remittances[remittance_id])]

\* PHASE 1: the loop over the entries lo..hi of settlements, in order; it
\* stops at the first entry rejected.  (Split in halves to keep the
\* evaluation shallow; the entries are still visited from lo to hi.)
RECURSIVE batch_validate_range(_, _, _, _)
batch_validate_range(settlements, lo, hi, st) ==
    IF st.err # Ok \/ lo > hi THEN st
    ELSE IF lo = hi THEN batch_validate_entry(settlements[lo], st)
    ELSE LET mid == (lo + hi) \div 2
             first == batch_validate_range(settlements, lo, mid, st)
         IN  batch_validate_range(settlements, mid + 1, hi, first)

batch_validate(settlements) ==
    batch_validate_range(settlements, 1, Len(settlements),
        [err |-> Ok, seen_ids |-> << >>, validated |-> << >>])

\* PHASE 2, the body of the loop for one validated remittance: `st` holds
\* the storage, balances, total_fees, settled_ids and events so far.
\* the loop body pushing the settled id at the front of settled_ids
batch_execute_entry_prepending(r, st) ==
    LET remittance_id == r.id
        payout == payout_amount(r)
    IN  IF payout = Overflow THEN [st EXCEPT !.err = "Overflow"]
        ELSE IF transfer_err(st.balance, Contract, payout) # Ok
        THEN [st EXCEPT !.err = transfer_err(st.balance, Contract, payout)]
        ELSE IF checked_add(st.total_fees, r.fee) = Overflow
        THEN [st EXCEPT !.err = "Overflow"]
        ELSE [err |-> Ok,
              balance |-> transfer(st.balance, Contract, r.agent, payout),
              total_fees |-> checked_add(st.total_fees, r.fee),
              remittances |-> set_remittance(st.remittances,
                  remittance_id, [r EXCEPT !.status = Completed]),
              settlement_hash |-> st.settlement_hash \cup {remittance_id},
              settled_ids |-> <<remittance_id>> \o st.settled_ids,
              events |-> st.events \o
                  <<Event("completed", remittance_id, payout, 0),
                    Event("settlement_completed", 0, payout, 0)>>]

\* the loop body leaving out set_settlement_hash
batch_execute_entry_unmarked(r, st) ==
    LET remittance_id == r.id
        payout == payout_amount(r)
    IN  IF payout = Overflow THEN [st EXCEPT !.err = "Overflow"]
        ELSE IF transfer_err(st.balance, Contract, payout) # Ok
        THEN [st EXCEPT !.err = transfer_err(st.balance, Contract, payout)]
        ELSE IF checked_add(st.total_fees, r.fee) = Overflow
        THEN [st EXCEPT !.err = "Overflow"]
        ELSE [err |-> Ok,
              balance |-> transfer(st.balance, Contract, r.agent, payout),
              total_fees |-> checked_add(st.total_fees, r.fee),
              remittances |-> set_remittance(st.remittances,
                  remittance_id, [r EXCEPT !.status = Completed]),
              settlement_hash |-> st.settlement_hash,
              settled_ids |-> Append(st.settled_ids, remittance_id),
              events |-> st.events \o
                  <<Event("completed", remittance_id, payout, 0),
                    Event("settlement_completed", 0, payout, 0)>>]

batch_execute_entry(r, st) ==
    LET remittance_id == r.id
        payout == payout_amount(r)
    IN  IF payout = Overflow THEN [st EXCEPT !.err = "Overflow"]
        ELSE IF transfer_err(st.balance, Contract, payout) # Ok
        THEN [st EXCEPT !.err = transfer_err(st.balance, Contract, payout)]
        ELSE IF checked_add(st.total_fees, r.fee) = Overflow
        THEN [st EXCEPT !.err = "Overflow"]
        ELSE [err |-> Ok,
              balance |-> transfer(st.balance, Contract, r.agent, payout),
              total_fees |-> checked_add(st.total_fees, r.fee),
              remittances |-> set_remittance(st.remittances,
                  remittance_id, [r EXCEPT !.status = Completed]),
              settlement_hash |-> st.settlement_hash \cup {remittance_id},
              settled_ids |-> Append(st.settled_ids, remittance_id),
              events |-> st.events \o
                  <<Event("completed", remittance_id, payout, 0),
                    Event("settlement_completed", 0, payout, 0)>>]

\* PHASE 2: the loop over the entries lo..hi of validated_remittances, in
\* order; it stops at the first error.
RECURSIVE batch_execute_range(_, _, _, _)
batch_execute_range(validated, lo, hi, st) ==
    IF st.err # Ok \/ lo > hi THEN st
    ELSE IF lo = hi THEN batch_execute_entry(validated[lo], st)
    ELSE LET mid == (lo + hi) \div 2
             first == batch_execute_range(validated, lo, mid, st)
         IN  batch_execute_range(validated, mid + 1, hi, first)

batch_execute(validated) ==
    batch_execute_range(validated, 1, Len(validated),
        [err |-> Ok, balance |-> balance, total_fees |-> 0,
         remittances |-> remittances, settlement_hash |-> settlement_hash,
         settled_ids |-> << >>,
         events |-> <<Event("batch_started", 0, Len(validated), 0)>>])

\* the fees folded into accumulated_fees after phase 2
\* the batch total stored in place of the sum
batch_new_fees_overwrite(total_fees) == total_fees

\* the batch total not folded into accumulated_fees
batch_new_fees_dropped(total_fees) == accumulated_fees

batch_new_fees(total_fees) == checked_add(accumulated_fees, total_fees)

\* batch_settle without its check for an empty list
batch_settle_empty_allowed(settlements, auth) ==
    LET call(err) == AuthCall("batch_settle", 0, settlements, 0, err, auth)
        started == <<Event("batch_started", 0, Len(settlements), 0)>>
    IN  IF is_paused THEN Fail(call("ContractPaused"), << >>)
        ELSE IF batch_size_err(Len(settlements)) # Ok
        THEN Fail(call(batch_size_err(Len(settlements))), << >>)
        ELSE LET phase1 == batch_validate(settlements) IN
        IF phase1.err # Ok
        THEN Fail(call(phase1.err), started \o batch_entry_events(phase1.err))
        ELSE LET phase2 == batch_execute(phase1.validated) IN
        IF phase2.err # Ok THEN Fail(call(phase2.err), phase2.events)
        ELSE IF batch_new_fees(phase2.total_fees) = Overflow
        THEN Fail(call("Overflow"), phase2.events)
        ELSE /\ balance' = phase2.balance
             /\ remittances' = phase2.remittances
             /\ settlement_hash' = phase2.settlement_hash
             /\ accumulated_fees' = batch_new_fees(phase2.total_fees)
             /\ last' = [call(Ok) EXCEPT !.settled = phase2.settled_ids]
             /\ events' = phase2.events \o
                    <<Event("batch_completed", 0, Len(phase2.settled_ids), 0)>>
             /\ UNCHANGED <<admin, usdc_token, fee_bps, counter, paused,
                            agent_registered, now>>

\* batch_settle with the size check moved before the pause check
batch_settle_size_first(settlements, auth) ==
    LET call(err) == AuthCall("batch_settle", 0, settlements, 0, err, auth)
        started == <<Event("batch_started", 0, Len(settlements), 0)>>
    IN  IF batch_size_err(Len(settlements)) # Ok
        THEN Fail(call(batch_size_err(Len(settlements))), << >>)
        ELSE IF is_paused THEN Fail(call("ContractPaused"), << >>)
        ELSE IF Len(settlements) = 0
        THEN Fail(call("EmptyBatchSettlement"), << >>)
        ELSE LET phase1 == batch_validate(settlements) IN
        IF phase1.err # Ok
        THEN Fail(call(phase1.err), started \o batch_entry_events(phase1.err))
        ELSE LET phase2 == batch_execute(phase1.validated) IN
        IF phase2.err # Ok THEN Fail(call(phase2.err), phase2.events)
        ELSE IF batch_new_fees(phase2.total_fees) = Overflow
        THEN Fail(call("Overflow"), phase2.events)
        ELSE /\ balance' = phase2.balance
             /\ remittances' = phase2.remittances
             /\ settlement_hash' = phase2.settlement_hash
             /\ accumulated_fees' = batch_new_fees(phase2.total_fees)
             /\ last' = [call(Ok) EXCEPT !.settled = phase2.settled_ids]
             /\ events' = phase2.events \o
                    <<Event("batch_completed", 0, Len(phase2.settled_ids), 0)>>
             /\ UNCHANGED <<admin, usdc_token, fee_bps, counter, paused,
                            agent_registered, now>>

batch_settle(settlements, auth) ==
    LET call(err) == AuthCall("batch_settle", 0, settlements, 0, err, auth)
        started == <<Event("batch_started", 0, Len(settlements), 0)>>
    IN  IF is_paused THEN Fail(call("ContractPaused"), << >>)
        ELSE IF Len(settlements) = 0
        THEN Fail(call("EmptyBatchSettlement"), << >>)
        ELSE IF batch_size_err(Len(settlements)) # Ok
        THEN Fail(call(batch_size_err(Len(settlements))), << >>)
        ELSE LET phase1 == batch_validate(settlements) IN
        IF phase1.err # Ok
        THEN Fail(call(phase1.err), started \o batch_entry_events(phase1.err))
        ELSE LET phase2 == batch_execute(phase1.validated) IN
        IF phase2.err # Ok THEN Fail(call(phase2.err), phase2.events)
        ELSE IF batch_new_fees(phase2.total_fees) = Overflow
        THEN Fail(call("Overflow"), phase2.events)
        ELSE /\ balance' = phase2.balance
             /\ remittances' = phase2.remittances
             /\ settlement_hash' = phase2.settlement_hash
             /\ accumulated_fees' = batch_new_fees(phase2.total_fees)
             /\ last' = [call(Ok) EXCEPT !.settled = phase2.settled_ids]
             /\ events' = phase2.events \o
                    <<Event("batch_completed", 0, Len(phase2.settled_ids), 0)>>
             /\ UNCHANGED <<admin, usdc_token, fee_bps, counter, paused,
                            agent_registered, now>>

(***************************************************************************)
(* Queries.                                                                *)
(***************************************************************************)
\* the entry points get_remittance and get_settlement: a read of the record
get_remittance(remittance_id) ==
    LET err == get_remittance_err(remittance_id)
        call == Call("get_remittance", remittance_id, << >>, 0, err)
    IN  IF err # Ok THEN Fail(call, << >>)
        ELSE /\ last' = [call EXCEPT !.ret = <<remittances[remittance_id]>>]
             /\ events' = << >>
             /\ UNCHANGED <<store, now>>

(***************************************************************************)
(* The environment: the ledger clock, and the storage write of             *)
(* test_duplicate_settlement_prevention that puts a stored remittance back *)
(* to Pending from outside the entry points.                               *)
(***************************************************************************)
advance_time ==
    /\ now < MaxTime
    /\ now' = now + 1
    /\ last' = Call("advance_time", 0, << >>, 0, Ok)
    /\ events' = << >>
    /\ UNCHANGED store

external_reset_status(remittance_id) ==
    /\ remittance_id \in DOMAIN remittances
    /\ remittances' = set_remittance(remittances, remittance_id,
           [remittances[remittance_id] EXCEPT !.status = Pending])
    /\ last' = Call("external_reset_status", remittance_id, << >>, 0, Ok)
    /\ events' = << >>
    /\ UNCHANGED <<admin, usdc_token, fee_bps, counter, accumulated_fees,
                   paused, agent_registered, settlement_hash, balance, now>>

(***************************************************************************)
(* Specifications.                                                         *)
(***************************************************************************)
RECURSIVE SeqsUpTo(_, _)
SeqsUpTo(S, n) ==
    IF n = 0 THEN {<< >>}
    ELSE LET shorter == SeqsUpTo(S, n - 1)
         IN  shorter \cup {Append(q, x) : q \in shorter, x \in S}

\* The lists of at most two entries: they hold every order of a valid and a
\* rejected entry, and the repeated id.
BatchInputs == SeqsUpTo(IdInputs, 2)

Next ==
    \/ \E fee \in FeeBpsInputs : initialize(Admin, "usdc", fee)
    \/ \E auth \in AuthInputs : register_agent(Agent, auth)
    \/ \E auth \in AuthInputs : remove_agent(Agent, auth)
    \/ \E fee \in FeeBpsInputs, auth \in AuthInputs : update_fee(fee, auth)
    \/ \E amount \in AmountInputs, expiry \in ExpiryInputs, auth \in AuthInputs :
          /\ counter < MaxRemittances
          /\ create_remittance(Sender, Agent, amount, expiry, auth)
    \/ \E id \in IdInputs, auth \in AuthInputs : confirm_payout(id, auth)
    \/ \E id \in IdInputs, auth \in AuthInputs : cancel_remittance(id, auth)
    \/ \E auth \in AuthInputs : withdraw_fees(Admin, auth)
    \/ \E auth \in AuthInputs : pause(auth)
    \/ \E auth \in AuthInputs : unpause(auth)
    \/ \E ids \in BatchInputs, auth \in BatchAuthInputs : batch_settle(ids, auth)
    \/ advance_time

Spec == Init /\ [][Next]_vars

(***************************************************************************)
(* Properties.                                                             *)
(***************************************************************************)
StatusOf(id) == remittances[id].status

\* C1: the status of a remittance changes only from Pending to Completed or
\* from Pending to Cancelled; a remittance, once stored, stays stored, and a
\* Completed or Cancelled one keeps its status in every later state.
C1_StatusTerminal ==
    [][\A id \in DOMAIN remittances :
          /\ id \in DOMAIN remittances'
          /\ remittances'[id].status # StatusOf(id) =>
                /\ StatusOf(id) = Pending
                /\ remittances'[id].status \in {Completed, Cancelled}]_vars

\* a cancel of a Completed remittance was refused while another remittance
\* is Cancelled
C1_Witness ==
    /\ last.op = "cancel_remittance"
    /\ last.err = "InvalidStatus"
    /\ last.id \in DOMAIN remittances
    /\ StatusOf(last.id) = Completed
    /\ \E id \in DOMAIN remittances : StatusOf(id) = Cancelled


\* Entry k of a batch list is one that validation rejects: its id is
\* repeated from an earlier entry, is unknown, is not Pending, carries a
\* settlement mark, or has expired.
EntryRejected(ids, k) ==
    \/ \E j \in 1..(k - 1) : ids[j] = ids[k]
    \/ ids[k] \notin DOMAIN remittances
    \/ /\ ids[k] \in DOMAIN remittances
       /\ \/ StatusOf(ids[k]) # Pending
          \/ ids[k] \in settlement_hash
          \/ /\ remittances[ids[k]].expiry # None
             /\ now > remittances[ids[k]].expiry

SomeEntryRejected(ids) == \E k \in 1..Len(ids) : EntryRejected(ids, k)

\* C2: a batch_settle call whose list holds an entry that fails validation
\* fails, and leaves every remittance, every balance, the settlement marks
\* and accumulated_fees as they were.
C2_BatchAtomic ==
    [][(last'.op = "batch_settle" /\ SomeEntryRejected(last'.ids)) =>
          /\ last'.err # Ok
          /\ remittances' = remittances
          /\ balance' = balance
          /\ settlement_hash' = settlement_hash
          /\ accumulated_fees' = accumulated_fees]_vars

\* a batch whose first entry is valid and whose second is rejected has failed
C2_Witness ==
    /\ last.op = "batch_settle"
    /\ last.err = "BatchValidationFailed"
    /\ Len(last.ids) = 2
    /\ ~EntryRejected(last.ids, 1)
    /\ EntryRejected(last.ids, 2)
    /\ StatusOf(last.ids[1]) = Pending


RECURSIVE SumOver(_, _, _)
\* the sum of f(remittances[id]) over the ids of S
SumOver(S, f(_), acc) ==
    IF S = {} THEN acc
    ELSE LET id == CHOOSE x \in S : TRUE
         IN  SumOver(S \ {id}, f, acc + f(remittances[id]))

IdsWithStatus(status) == {id \in DOMAIN remittances : StatusOf(id) = status}

FeeOf(r) == r.fee
AmountOf(r) == r.amount

\* accumulated_fees, read as 0 while nothing is stored
FeesValue == IF accumulated_fees = None THEN 0 ELSE accumulated_fees

\* withdraw_fees pays the recipient every time it succeeds, and nothing else
\* pays the recipient: its balance is 0 exactly while no fees were withdrawn
NoFeesWithdrawn == balance[Admin] = 0

\* C5: as long as no fees were withdrawn, accumulated_fees is the sum of the
\* stored fee of the Completed remittances; Pending and Cancelled ones
\* contribute nothing.
C5_FeesAreCompletedFees ==
    NoFeesWithdrawn =>
        FeesValue = SumOver(IdsWithStatus(Completed), FeeOf, 0)

\* a batch_settle has completed a remittance after another one had been
\* completed, and the fees of both are accumulated
C5_Witness ==
    /\ NoFeesWithdrawn
    /\ last.op = "batch_settle"
    /\ last.err = Ok
    /\ Len(last.ids) = 1
    /\ Cardinality(IdsWithStatus(Completed)) = 2
    /\ accumulated_fees > 0

(***************************************************************************)
(* SpecFees: the money-moving entry points with remittances of different   *)
(* amounts, created under a fee rate of 250 and, once update_fee has       *)
(* raised it, of 1000 basis points, by authorized callers and without      *)
(* expiry.                                                                 *)
(***************************************************************************)
FeeAmountInputs == {400, 1000}

NextFees ==
    \/ initialize(Admin, "usdc", 250)
    \/ register_agent(Agent, Principals)
    \/ update_fee(1000, Principals)
    \/ \E amount \in FeeAmountInputs :
          /\ counter < MaxRemittances
          /\ create_remittance(Sender, Agent, amount, None, Principals)
    \/ \E id \in IdInputs : confirm_payout(id, Principals)
    \/ \E id \in IdInputs : cancel_remittance(id, Principals)
    \/ withdraw_fees(Admin, Principals)
    \/ \E ids \in BatchInputs, auth \in BatchAuthInputs : batch_settle(ids, auth)

SpecFees == Init /\ [][NextFees]_vars

\* C6: the custody balance is the sum of the gross amounts of the Pending
\* remittances plus accumulated_fees; with no remittance Pending it is
\* accumulated_fees, and 0 after a withdraw_fees.
C6_Custody ==
    /\ balance[Contract] = SumOver(IdsWithStatus(Pending), AmountOf, 0) + FeesValue
    /\ IdsWithStatus(Pending) = {} => balance[Contract] = FeesValue
    /\ (IdsWithStatus(Pending) = {} /\ last.op = "withdraw_fees" /\ last.err = Ok)
          => balance[Contract] = 0

\* every remittance created is Completed or Cancelled and the fees were
\* withdrawn
C6_Witness ==
    /\ last.op = "withdraw_fees"
    /\ last.err = Ok
    /\ Cardinality(DOMAIN remittances) >= 2
    /\ IdsWithStatus(Pending) = {}
    /\ IdsWithStatus(Completed) # {}
    /\ balance[Admin] > 0
    /\ balance[Contract] = 0

\* C7: a successful cancel_remittance finds the remittance Pending, moves
\* exactly its gross amount from custody to its sender, sets the status to
\* Cancelled and leaves accumulated_fees alone; create_remittance had taken
\* exactly that amount from the sender, so that the sender holds the minted
\* balance less the amounts of the remittances that are not Cancelled.
C7_CancelRefundsInFull ==
    [][/\ (last'.op = "cancel_remittance" /\ last'.err = Ok) =>
             LET r == remittances[last'.id] IN
             /\ r.status = Pending
             /\ balance' = [balance EXCEPT ![Contract] = @ - r.amount,
                                           ![r.sender] = @ + r.amount]
             /\ remittances' = [remittances EXCEPT ![last'.id].status = Cancelled]
             /\ accumulated_fees' = accumulated_fees
       /\ (last'.op = "create_remittance" /\ last'.err = Ok) =>
             /\ balance'[Sender] = balance[Sender] - last'.arg
             /\ remittances'[last'.id].amount = last'.arg
       /\ balance'[Sender] = Mint -
             (SumOver(IdsWithStatus(Pending) \cup IdsWithStatus(Completed),
                      AmountOf, 0))']_vars

\* a remittance was created and cancelled, and the sender holds the minted
\* balance again
C7_Witness ==
    /\ last.op = "cancel_remittance"
    /\ last.err = Ok
    /\ StatusOf(last.id) = Cancelled
    /\ remittances[last.id].fee > 0
    /\ IdsWithStatus(Cancelled) = DOMAIN remittances
    /\ balance[Sender] = Mint

PendingUnmarked(id) ==
    /\ id \in DOMAIN remittances
    /\ StatusOf(id) = Pending
    /\ id \notin settlement_hash

\* what C8 says of a confirm_payout step on remittance r
ExpiryOutcome(r) ==
    /\ (r.expiry # None /\ now = r.expiry) => last'.err = Ok
    /\ (r.expiry # None /\ now > r.expiry) =>
           (last'.err = "SettlementExpired" /\ UNCHANGED store)
    /\ r.expiry = None => last'.err = Ok

WithinBound(ids) == Len(ids) > 0 /\ Len(ids) <= MAX_BATCH_SIZE

\* C10: on an unpaused contract, a batch_settle call on a non-empty list
\* within the size bound that holds a rejected entry (a repeated id, an id
\* with no stored remittance, a status other than Pending, a settlement
\* mark, or an expiry before the ledger time) fails with
\* BatchValidationFailed.
C10_SingleBatchError ==
    [][(/\ last'.op = "batch_settle"
        /\ ~paused
        /\ WithinBound(last'.ids)
        /\ SomeEntryRejected(last'.ids))
          => last'.err = "BatchValidationFailed"]_vars

(***************************************************************************)
(* SpecExt: the settlement and cancellation entry points together with the *)
(* external storage write that puts a status back to Pending.  The         *)
(* remittances are created without expiry and by authorized callers.       *)
(***************************************************************************)
NextExt ==
    \/ initialize(Admin, "usdc", 250)
    \/ register_agent(Agent, Principals)
    \/ \E amount \in AmountInputs :
          /\ counter < MaxRemittances
          /\ create_remittance(Sender, Agent, amount, None, Principals)
    \/ \E id \in IdInputs, auth \in AuthInputs : confirm_payout(id, auth)
    \/ \E id \in IdInputs : cancel_remittance(id, Principals)
    \/ pause(Principals)
    \/ unpause(Principals)
    \/ \E ids \in BatchInputs, auth \in BatchAuthInputs : batch_settle(ids, auth)
    \/ \E id \in IdInputs : external_reset_status(id)

SpecExt == Init /\ [][NextExt]_vars


Range(q) == {q[i] : i \in 1..Len(q)}

\* the step is a successful confirm_payout of id, or a successful
\* batch_settle whose list holds id
Settles(id) ==
    \/ last'.op = "confirm_payout" /\ last'.id = id /\ last'.err = Ok
    \/ last'.op = "batch_settle" /\ id \in Range(last'.ids) /\ last'.err = Ok

\* the step is a confirm_payout of id or a batch_settle whose list holds id
TriesToSettle(id) ==
    \/ last'.op = "confirm_payout" /\ last'.id = id
    \/ last'.op = "batch_settle" /\ id \in Range(last'.ids)

\* C4: the settlement mark of an id is set by exactly the steps in which a
\* confirm_payout of the id or a batch_settle holding the id succeeds; a mark
\* is never cleared; and once it is set, no confirm_payout of the id and no
\* batch_settle holding the id succeeds or moves any balance, also after an
\* external write has put the status back to Pending.
C4_MarkOnceAndForAll ==
    [][/\ settlement_hash \subseteq settlement_hash'
       /\ \A id \in IdInputs \ settlement_hash :
             id \in settlement_hash' <=> Settles(id)
       /\ \A id \in settlement_hash :
             TriesToSettle(id) => (last'.err # Ok /\ balance' = balance)]_vars

\* a batch_settle holding a marked id whose status was put back to Pending
\* has been refused
C4_Witness ==
    /\ last.op = "batch_settle"
    /\ last.err = "BatchValidationFailed"
    /\ \E k \in 1..Len(last.ids) :
          /\ last.ids[k] \in settlement_hash
          /\ StatusOf(last.ids[k]) = Pending

(***************************************************************************)
(* SpecConfirm: SpecExt without batch_settle, so that every settlement     *)
(* mark was set by a confirm_payout.                                       *)
(***************************************************************************)
NextConfirm ==
    \/ initialize(Admin, "usdc", 250)
    \/ register_agent(Agent, Principals)
    \/ \E amount \in AmountInputs :
          /\ counter < MaxRemittances
          /\ create_remittance(Sender, Agent, amount, None, Principals)
    \/ \E id \in IdInputs, auth \in AuthInputs : confirm_payout(id, auth)
    \/ \E id \in IdInputs : cancel_remittance(id, Principals)
    \/ pause(Principals)
    \/ unpause(Principals)
    \/ \E id \in IdInputs : external_reset_status(id)

SpecConfirm == Init /\ [][NextConfirm]_vars

\* C3 as stated: a confirm_payout of an id that an earlier confirm_payout
\* settled fails with DuplicateSettlement (here even granted that the
\* contract is not paused and the agent authorized the call).
C3_Original ==
    [][\A id \in IdInputs :
          (id \in settlement_hash /\ ~paused /\ confirm_payout(id, Principals))
              => last'.err = "DuplicateSettlement"]_vars

\* C3 as amended: a confirm_payout of an id that an earlier confirm_payout
\* settled always fails and changes nothing; on an unpaused contract and
\* with the agent's authorization the error is DuplicateSettlement when the
\* status was put back to Pending, and InvalidStatus otherwise.
C3_SecondConfirmFails ==
    [][\A id \in IdInputs :
          /\ \A auth \in AuthInputs :
                (id \in settlement_hash /\ confirm_payout(id, auth))
                    => (last'.err # Ok /\ UNCHANGED store)
          /\ (id \in settlement_hash /\ ~paused /\ confirm_payout(id, Principals))
                => last'.err = IF StatusOf(id) = Pending
                               THEN "DuplicateSettlement"
                               ELSE "InvalidStatus"]_vars

\* the status of a settled remittance was put back to Pending and the
\* second confirm_payout was refused as a duplicate
C3_Witness ==
    /\ last.op = "confirm_payout"
    /\ last.err = "DuplicateSettlement"
    /\ last.id \in settlement_hash
    /\ StatusOf(last.id) = Pending


(***************************************************************************)
(* SpecBulk: the contract with up to MAX_BATCH_SIZE + 1 remittances of one *)
(* small amount and no expiry, and batch_settle called on lists of         *)
(* MAX_BATCH_SIZE and MAX_BATCH_SIZE + 1 entries: the ids 1..n in order,   *)
(* and one id repeated.                                                    *)
(***************************************************************************)
BulkAmountInputs == {40}

Iota(n) == [i \in 1..n |-> i]

Repeated(id, n) == [i \in 1..n |-> id]

BulkInputs ==
    {Iota(MAX_BATCH_SIZE), Iota(MAX_BATCH_SIZE + 1),
     Repeated(1, MAX_BATCH_SIZE), Repeated(1, MAX_BATCH_SIZE + 1)}

NextBulk ==
    \/ initialize(Admin, "usdc", 250)
    \/ register_agent(Agent, Principals)
    \/ \E amount \in BulkAmountInputs :
          /\ counter < MAX_BATCH_SIZE + 1
          /\ create_remittance(Sender, Agent, amount, None, Principals)
    \/ pause(Principals)
    \/ unpause(Principals)
    \/ \E ids \in BulkInputs, auth \in BatchAuthInputs : batch_settle(ids, auth)

SpecBulk == Init /\ [][NextBulk]_vars

Distinct(q) == \A i, j \in 1..Len(q) : q[i] = q[j] => i = j

\* what C9 says of a batch_settle step on the list ids
SizeOutcome(ids) ==
    /\ (/\ Len(ids) = MAX_BATCH_SIZE
        /\ Distinct(ids)
        /\ \A id \in Range(ids) :
              PendingUnmarked(id) /\ ~is_expired(remittances[id], now))
       => /\ last'.err = Ok
          /\ \A id \in Range(ids) :
                /\ remittances'[id].status = Completed
                /\ id \in settlement_hash'
    /\ Len(ids) = MAX_BATCH_SIZE + 1
       => /\ last'.err = "BatchTooLarge"
          /\ events' = << >>
          /\ UNCHANGED store

FeeMathBpsInputs == {0, 1, 250, 500, 9999, 10000}

FeeMathAmountInputs == {1, 3, 39, 40, 1999, 2001, 10000}

UpdateFeeBpsInputs == FeeMathBpsInputs \cup {10001}

NextFeeMath ==
    \/ \E fee \in FeeMathBpsInputs : initialize(Admin, "usdc", fee)
    \/ register_agent(Agent, Principals)
    \/ \E fee \in UpdateFeeBpsInputs, auth \in AuthInputs : update_fee(fee, auth)
    \/ \E amount \in FeeMathAmountInputs :
          /\ counter = 0
          /\ create_remittance(Sender, Agent, amount, None, Principals)
    \/ confirm_payout(1, Principals)

SpecFeeMath == Init /\ [][NextFeeMath]_vars

\* f is the floor of amount * bps / 10000
IsFloorOfFee(f, amount, bps) ==
    /\ f * 10000 <= amount * bps
    /\ amount * bps < (f + 1) * 10000

\* C11: for every amount > 0 and fee_bps in 0..10000 for which
\* create_remittance succeeds, the stored fee is floor(amount * fee_bps /
\* 10000), lies in 0..amount, and the payout amount - fee lies in 0..amount.
C11_FeeMath ==
    [][(/\ last'.op = "create_remittance"
        /\ last'.err = Ok
        /\ last'.arg > 0
        /\ fee_bps \in 0..10000)
          => LET r == remittances'[last'.id] IN
             /\ r.amount = last'.arg
             /\ IsFloorOfFee(r.fee, r.amount, fee_bps)
             /\ 0 <= r.fee /\ r.fee <= r.amount
             /\ payout_amount(r) = r.amount - r.fee
             /\ payout_amount(r) \in 0..r.amount]_vars

\* amount 10000 was created at 500 basis points with fee 500, and paid out
\* 9500 to the agent
C11_Witness ==
    /\ last.op = "confirm_payout"
    /\ last.err = Ok
    /\ fee_bps = 500
    /\ remittances[last.id].amount = 10000
    /\ remittances[last.id].fee = 500
    /\ balance[Agent] = 9500
    /\ accumulated_fees = 500


(***************************************************************************)
(* SpecPause: the admin pauses and unpauses the contract while remittances *)
(* are created (with and without expiry), paid out singly (with and        *)
(* without authorization) or in a batch, and cancelled, and the clock      *)
(* advances.                                                               *)
(***************************************************************************)
NextPause ==
    \/ initialize(Admin, "usdc", 250)
    \/ register_agent(Agent, Principals)
    \/ \E amount \in AmountInputs, expiry \in ExpiryInputs :
          /\ counter < MaxRemittances
          /\ create_remittance(Sender, Agent, amount, expiry, Principals)
    \/ \E id \in IdInputs, auth \in AuthInputs : confirm_payout(id, auth)
    \/ \E id \in IdInputs : cancel_remittance(id, Principals)
    \/ pause(Principals)
    \/ unpause(Principals)
    \/ \E ids \in BatchInputs, auth \in BatchAuthInputs : batch_settle(ids, auth)
    \/ advance_time

SpecPause == Init /\ [][NextPause]_vars

\* a confirm_payout of id is valid: the remittance is Pending, unmarked and
\* not expired
Confirmable(id) ==
    PendingUnmarked(id) /\ ~is_expired(remittances[id], now)

\* C12: while the contract is paused every confirm_payout and every
\* batch_settle fails with ContractPaused and changes no remittance, mark,
\* balance or fee total; pause and unpause themselves change none of them
\* either, and the confirm_payout of a valid remittance made with the
\* agent's authorization right after an unpause succeeds.
C12_PauseBlocksSettlement ==
    [][/\ (paused /\ last'.op \in {"confirm_payout", "batch_settle"})
            => /\ last'.err = "ContractPaused"
               /\ UNCHANGED <<remittances, settlement_hash, balance,
                              accumulated_fees>>
       /\ last'.op \in {"pause", "unpause"}
            => UNCHANGED <<remittances, settlement_hash, balance,
                           accumulated_fees, now>>
       /\ \A id \in IdInputs :
             (/\ last.op = "unpause" /\ last.err = Ok
              /\ Confirmable(id)
              /\ confirm_payout(id, Principals))
                => /\ last'.err = Ok
                   /\ remittances'[id].status = Completed]_vars

\* a confirm_payout of a valid remittance was refused because the contract
\* is paused
C12_Witness ==
    /\ paused
    /\ last.op = "confirm_payout"
    /\ last.err = "ContractPaused"
    /\ Confirmable(last.id)


\* the outcome of an authorized create_remittance(Sender, Agent, amount, _)
\* as a function of everything in the state but the pause flag
CreateOutcome(amount) ==
    IF amount <= 0 THEN "InvalidAmount"
    ELSE IF ~agent_registered[Agent] THEN "AgentNotRegistered"
    ELSE IF admin = NoAddress THEN "NotInitialized"
    ELSE IF amount * fee_bps > I128_MAX THEN "Overflow"
    ELSE IF balance[Sender] < amount THEN "TransferFailed"
    ELSE IF counter + 1 > U64_MAX THEN "Overflow"
    ELSE Ok

\* the outcome of an authorized cancel_remittance(id), likewise
CancelOutcome(id) ==
    IF id \notin DOMAIN remittances THEN "RemittanceNotFound"
    ELSE IF StatusOf(id) # Pending THEN "InvalidStatus"
    ELSE IF balance[Contract] < remittances[id].amount THEN "TransferFailed"
    ELSE Ok

\* C13: create_remittance and cancel_remittance have the outcome, and the
\* effect on the state, that the rest of the state determines, whether the
\* contract is paused or not: a creation moves the amount into custody and
\* stores a Pending remittance, a cancellation refunds the amount and sets
\* the status to Cancelled, and neither touches the pause flag.
C13_PauseDoesNotGate ==
    [][/\ \A amount \in AmountInputs, expiry \in ExpiryInputs :
             create_remittance(Sender, Agent, amount, expiry, Principals)
                => /\ last'.err = CreateOutcome(amount)
                   /\ paused' = paused
                   /\ last'.err = Ok =>
                         /\ counter' = counter + 1
                         /\ remittances'[counter'].status = Pending
                         /\ remittances'[counter'].amount = amount
                         /\ balance'[Sender] = balance[Sender] - amount
                         /\ balance'[Contract] = balance[Contract] + amount
                   /\ last'.err # Ok => UNCHANGED store
       /\ \A id \in IdInputs :
             cancel_remittance(id, Principals)
                => /\ last'.err = CancelOutcome(id)
                   /\ paused' = paused
                   /\ last'.err = Ok =>
                         /\ remittances'[id].status = Cancelled
                         /\ balance'[Sender] =
                                balance[Sender] + remittances[id].amount
                         /\ balance'[Contract] =
                                balance[Contract] - remittances[id].amount
                   /\ last'.err # Ok => UNCHANGED store]_vars

\* on a paused contract the remittance created last was cancelled and
\* refunded in full
C13_Witness ==
    /\ paused
    /\ last.op = "cancel_remittance"
    /\ last.err = Ok
    /\ StatusOf(last.id) = Cancelled
    /\ last.id = counter
    /\ balance[Contract] = 0
    /\ balance[Sender] = Mint


(***************************************************************************)
(* SpecInit: initialize called with either of two admins and two assets    *)
(* and with fee rates around the limit, before and after remittances were  *)
(* created and paid out.                                                   *)
(***************************************************************************)
InitAdminInputs == {Admin, Sender}

InitTokenInputs == {"usdc", "other"}

InitFeeBpsInputs == {0, 250, 10000, 10001}

NextInit ==
    \/ \E a \in InitAdminInputs, token \in InitTokenInputs,
          fee \in InitFeeBpsInputs : initialize(a, token, fee)
    \/ register_agent(Agent, Principals)
    \/ \E amount \in FeeAmountInputs :
          /\ counter < MaxRemittances
          /\ create_remittance(Sender, Agent, amount, None, Principals)
    \/ \E id \in IdInputs : confirm_payout(id, Principals)

SpecInit == Init /\ [][NextInit]_vars

\* C14: the first initialize with fee_bps <= 10000 sets admin, asset and
\* fee_bps and zeroes the counter and accumulated_fees; with fee_bps > 10000
\* on an uninitialized contract it fails with InvalidFeeBps and leaves the
\* contract uninitialized; every call after a successful one fails with
\* AlreadyInitialized and changes nothing.
C14_InitializeOnce ==
    [][\A a \in InitAdminInputs, token \in InitTokenInputs,
          fee \in InitFeeBpsInputs :
          initialize(a, token, fee) =>
              IF admin # NoAddress
              THEN last'.err = "AlreadyInitialized" /\ UNCHANGED store
              ELSE IF fee > 10000
              THEN /\ last'.err = "InvalidFeeBps"
                   /\ UNCHANGED store
                   /\ admin' = NoAddress
              ELSE /\ last'.err = Ok
                   /\ admin' = a
                   /\ usdc_token' = token
                   /\ fee_bps' = fee
                   /\ counter' = 0
                   /\ accumulated_fees' = 0]_vars

\* a second initialize, with another fee rate, was refused after
\* remittances were created and fees accumulated
C14_Witness ==
    /\ last.op = "initialize"
    /\ last.err = "AlreadyInitialized"
    /\ last.arg <= 10000
    /\ last.arg # fee_bps
    /\ counter > 0
    /\ accumulated_fees > 0


\* C15: on an initialized contract, an update_fee(fee_bps) authorized by the
\* admin fails with InvalidFeeBps and leaves the stored rate (and everything
\* else) unchanged when fee_bps > 10000, and succeeds when fee_bps is in
\* 0..10000, after which get_platform_fee_bps returns fee_bps.
C15_UpdateFee ==
    [][\A fee \in UpdateFeeBpsInputs :
          (admin # NoAddress /\ update_fee(fee, Principals)) =>
              IF fee > 10000
              THEN /\ last'.err = "InvalidFeeBps"
                   /\ get_platform_fee_bps' = get_platform_fee_bps
                   /\ UNCHANGED store
              ELSE /\ last'.err = Ok
                   /\ get_platform_fee_bps' = fee]_vars

\* update_fee has stored the largest rate allowed, after a remittance was
\* created at a smaller rate
C15_Witness ==
    /\ last.op = "update_fee"
    /\ last.err = Ok
    /\ last.arg = 10000
    /\ get_platform_fee_bps = 10000
    /\ 1 \in DOMAIN remittances
    /\ remittances[1].fee < remittances[1].amount


(***************************************************************************)
(* SpecCreate: creation with negative, zero and positive amounts, with and *)
(* without the sender's authorization, while the admin registers and       *)
(* removes the agent; the remittances are paid out, or cancelled with and  *)
(* without the sender's authorization.                                     *)
(***************************************************************************)
CreateAmountInputs == {-1, 0, 1000}

NextCreate ==
    \/ initialize(Admin, "usdc", 250)
    \/ register_agent(Agent, Principals)
    \/ remove_agent(Agent, Principals)
    \/ \E amount \in CreateAmountInputs, auth \in AuthInputs :
          /\ counter < MaxRemittances
          /\ create_remittance(Sender, Agent, amount, None, auth)
    \/ \E id \in IdInputs : confirm_payout(id, Principals)
    \/ \E id \in IdInputs, auth \in AuthInputs : cancel_remittance(id, auth)

SpecCreate == Init /\ [][NextCreate]_vars

\* the ids assigned so far are exactly 1..counter, each stored under itself
IdsAreOneToCounter ==
    /\ admin = NoAddress => remittances = << >>
    /\ admin # NoAddress =>
          /\ DOMAIN remittances = 1..counter
          /\ Cardinality(DOMAIN remittances) = counter
    /\ \A id \in DOMAIN remittances : remittances[id].id = id

\* C16: the n-th successful create_remittance returns n, the counter equals
\* the number of remittances created, a failed create_remittance consumes no
\* id, no other call moves the counter once remittances exist, and an id
\* once assigned keeps its remittance (sender, agent, amount and fee).
C16_IdsUniqueIncreasing ==
    /\ []IdsAreOneToCounter
    /\ [][/\ (last'.op = "create_remittance" /\ last'.err = Ok)
               => /\ last'.id = Cardinality(DOMAIN remittances) + 1
                  /\ last'.id \notin DOMAIN remittances
                  /\ counter' = last'.id
                  /\ DOMAIN remittances' = DOMAIN remittances \cup {last'.id}
          /\ (last'.op = "create_remittance" /\ last'.err # Ok)
               => counter' = counter /\ remittances' = remittances
          /\ (last'.op # "create_remittance" /\ remittances # << >>)
               => counter' = counter
          /\ \A id \in DOMAIN remittances :
                /\ id \in DOMAIN remittances'
                /\ [remittances'[id] EXCEPT !.status = Pending] =
                      [remittances[id] EXCEPT !.status = Pending]]_vars

\* a create_remittance failed after the first creation and left the counter
\* at 1
C16_Witness ==
    /\ last.op = "create_remittance"
    /\ last.err # Ok
    /\ counter = 1
    /\ DOMAIN remittances = {1}


\* C17: a create_remittance that the sender authorized fails with
\* InvalidAmount when amount <= 0 and, for a positive amount, with
\* AgentNotRegistered when the agent's flag is unset; in both cases no value
\* leaves the sender, no remittance is stored and the counter is unchanged.
C17_CreateRejections ==
    [][\A amount \in CreateAmountInputs :
          create_remittance(Sender, Agent, amount, None, Principals) =>
              /\ amount <= 0 => last'.err = "InvalidAmount"
              /\ (amount > 0 /\ ~agent_registered[Agent])
                    => last'.err = "AgentNotRegistered"
              /\ (amount <= 0 \/ ~agent_registered[Agent])
                    => /\ balance' = balance
                       /\ remittances' = remittances
                       /\ counter' = counter
                       /\ UNCHANGED store]_vars

\* a creation was refused because the agent, registered when the first
\* remittance was created, had been removed
C17_Witness ==
    /\ last.op = "create_remittance"
    /\ last.err = "AgentNotRegistered"
    /\ last.arg > 0
    /\ ~agent_registered[Agent]
    /\ counter = 1
    /\ balance[Sender] = Mint - remittances[1].amount


\* C18: on an initialized contract, a withdraw_fees(to) authorized by the
\* admin fails with NoFeesToWithdraw and changes nothing when
\* accumulated_fees <= 0; otherwise it moves exactly accumulated_fees from
\* custody to `to` and sets accumulated_fees to 0, and a withdraw_fees right
\* after it fails with NoFeesToWithdraw.
C18_WithdrawFees ==
    [][(admin # NoAddress /\ withdraw_fees(Admin, Principals)) =>
          /\ IF accumulated_fees <= 0
             THEN last'.err = "NoFeesToWithdraw" /\ UNCHANGED store
             ELSE /\ last'.err = Ok
                  /\ balance'[Admin] = balance[Admin] + accumulated_fees
                  /\ balance'[Contract] = balance[Contract] - accumulated_fees
                  /\ \A a \in Accounts \ {Admin, Contract} :
                        balance'[a] = balance[a]
                  /\ accumulated_fees' = 0
          /\ (last.op = "withdraw_fees" /\ last.err = Ok)
                => last'.err = "NoFeesToWithdraw"]_vars

\* a withdraw_fees was refused after an earlier one had paid out the fees
C18_Witness ==
    /\ last.op = "withdraw_fees"
    /\ last.err = "NoFeesToWithdraw"
    /\ accumulated_fees = 0
    /\ balance[Admin] > 0


(***************************************************************************)
(* SpecLimit: the sender creates remittances of 5000 and 6000 while the    *)
(* clock advances; the remittances are paid out or cancelled.  The cap of  *)
(* the Limit Tracker is the one of the spec's example (4.4, 8): lib.rs has *)
(* no entry point that sets a cap and create_remittance reads none.        *)
(***************************************************************************)
DailyCap == 10000

LimitAmountInputs == {5000, 6000}

NextLimit ==
    \/ initialize(Admin, "usdc", 250)
    \/ register_agent(Agent, Principals)
    \/ \E amount \in LimitAmountInputs :
          /\ counter < MaxRemittances
          /\ create_remittance(Sender, Agent, amount, None, Principals)
    \/ \E id \in IdInputs : confirm_payout(id, Principals)
    \/ \E id \in IdInputs : cancel_remittance(id, Principals)
    \/ advance_time

SpecLimit == Init /\ [][NextLimit]_vars

\* C19: with the cap configured, a creation whose amount plus the amounts
\* the sender created within the last 24 hours exceeds the cap fails with
\* DailyLimitExceeded and mutates nothing.  Stated for the creation that
\* directly follows a successful one, at the same ledger time: the amount
\* just created is within the window.
C19_DailyLimit ==
    [][\A amount \in LimitAmountInputs :
          (/\ last.op = "create_remittance"
           /\ last.err = Ok
           /\ last.arg + amount > DailyCap
           /\ create_remittance(Sender, Agent, amount, None, Principals))
             => /\ last'.err = "DailyLimitExceeded"
                /\ UNCHANGED store]_vars


(***************************************************************************)
(* SpecAuth: every entry point that asks for an authorization, invoked     *)
(* with the authorizations of all the principals and of all but one.       *)
(***************************************************************************)
AuthSubsetInputs == {Principals} \cup {Principals \ {p} : p \in Principals}

NextAuth ==
    \/ initialize(Admin, "usdc", 250)
    \/ \E auth \in AuthSubsetInputs : register_agent(Agent, auth)
    \/ \E auth \in AuthSubsetInputs : remove_agent(Agent, auth)
    \/ \E auth \in AuthSubsetInputs : update_fee(500, auth)
    \/ \E auth \in AuthSubsetInputs :
          /\ counter < MaxRemittances
          /\ create_remittance(Sender, Agent, 1000, None, auth)
    \/ \E id \in IdInputs, auth \in AuthSubsetInputs : confirm_payout(id, auth)
    \/ \E id \in IdInputs, auth \in AuthSubsetInputs : cancel_remittance(id, auth)
    \/ \E auth \in AuthSubsetInputs : withdraw_fees(Admin, auth)
    \/ \E auth \in AuthSubsetInputs : pause(auth)
    \/ \E auth \in AuthSubsetInputs : unpause(auth)

SpecAuth == Init /\ [][NextAuth]_vars

\* the step is a failed invocation that changed nothing
Refused == last'.err # Ok /\ UNCHANGED store

\* C20: a call that lacks the authorization of its principal changes no
\* state: the sender for create_remittance, the stored agent for
\* confirm_payout, the stored sender for cancel_remittance, the stored admin
\* for register_agent, remove_agent, update_fee, pause, unpause and
\* withdraw_fees.
C20_AuthorizationRequired ==
    [][\A auth \in AuthSubsetInputs :
          /\ (Sender \notin auth
              /\ create_remittance(Sender, Agent, 1000, None, auth)) => Refused
          /\ \A id \in DOMAIN remittances :
                /\ (remittances[id].agent \notin auth
                    /\ confirm_payout(id, auth)) => Refused
                /\ (remittances[id].sender \notin auth
                    /\ cancel_remittance(id, auth)) => Refused
          /\ admin \notin auth =>
                /\ register_agent(Agent, auth) => Refused
                /\ remove_agent(Agent, auth) => Refused
                /\ update_fee(500, auth) => Refused
                /\ pause(auth) => Refused
                /\ unpause(auth) => Refused
                /\ withdraw_fees(Admin, auth) => Refused]_vars

\* a confirm_payout of a valid remittance on an unpaused contract was
\* refused for want of the agent's authorization
C20_Witness ==
    /\ last.op = "confirm_payout"
    /\ last.err = "Unauthorized"
    /\ ~paused
    /\ Confirmable(last.id)


\* C21: a remittance becomes Completed, and its agent is paid, only in an
\* invocation that carries the authorization of the remittance's agent, be
\* it a confirm_payout or a batch_settle.
C21_AgentAuthorizedCompletion ==
    [][\A id \in DOMAIN remittances :
          (/\ StatusOf(id) # Completed
           /\ remittances'[id].status = Completed)
             => /\ last'.op \in {"confirm_payout", "batch_settle"}
                /\ remittances[id].agent \in last'.auth]_vars


\* C22: cancel_remittance fails with RemittanceNotFound for an id never
\* created and, when the sender authorized it, with InvalidStatus for a
\* remittance that is Completed or Cancelled; in both cases nothing changes
\* and nothing is refunded, and a refund is made only for a remittance that
\* is Pending, so at most once.
C22_CancelRejections ==
    [][\A id \in IdInputs :
          /\ \A auth \in AuthInputs :
                (id \notin DOMAIN remittances /\ cancel_remittance(id, auth))
                   => last'.err = "RemittanceNotFound" /\ UNCHANGED store
          /\ (/\ id \in DOMAIN remittances
              /\ StatusOf(id) \in {Completed, Cancelled}
              /\ cancel_remittance(id, Principals))
                => last'.err = "InvalidStatus" /\ UNCHANGED store
          /\ (/\ last'.op = "cancel_remittance"
              /\ last'.id = id
              /\ balance' # balance)
                => /\ StatusOf(id) = Pending
                   /\ remittances'[id].status = Cancelled]_vars

\* a second cancel_remittance of a cancelled remittance was refused, the
\* sender holding the one refund
C22_Witness ==
    /\ last.op = "cancel_remittance"
    /\ last.err = "InvalidStatus"
    /\ StatusOf(last.id) = Cancelled
    /\ counter = 1
    /\ balance[Sender] = Mint
    /\ balance[Contract] = 0


\* C23: batch_settle called on an unpaused contract with an empty list fails
\* with EmptyBatchSettlement, emits nothing and changes no state.
C23_EmptyBatch ==
    [][\A auth \in BatchAuthInputs :
          (~paused /\ batch_settle(<< >>, auth))
             => /\ last'.err = "EmptyBatchSettlement"
                /\ events' = << >>
                /\ UNCHANGED store]_vars

\* an empty batch was refused on an unpaused contract that holds a Pending
\* remittance
C23_Witness ==
    /\ last.op = "batch_settle"
    /\ last.ids = << >>
    /\ last.err = "EmptyBatchSettlement"
    /\ ~paused
    /\ IdsWithStatus(Pending) # {}


(***************************************************************************)
(* SpecOverflow: remittances are created until the u64 counter is          *)
(* exhausted, so that create_remittance fails at its counter increment     *)
(* (lib.rs:117-118) after its transfer (lib.rs:113-115); the first two     *)
(* remittances are settled, cancelled and batch-settled, with and without  *)
(* the authorization the operation asks for.                               *)
(***************************************************************************)
OverflowAmountInputs == {0, 40}

OverflowIdInputs == {1, 2, U64_MAX + 1}

OverflowBatchInputs == {<< >>, <<1>>, <<2, 1>>, <<1, 1>>}

NextOverflow ==
    \/ initialize(Admin, "usdc", 250)
    \/ register_agent(Agent, Principals)
    \/ \E amount \in OverflowAmountInputs :
          create_remittance(Sender, Agent, amount, None, Principals)
    \/ \E id \in OverflowIdInputs, auth \in AuthInputs :
          confirm_payout(id, auth)
    \/ \E id \in OverflowIdInputs, auth \in AuthInputs :
          cancel_remittance(id, auth)
    \/ \E ids \in OverflowBatchInputs, auth \in BatchAuthInputs :
          batch_settle(ids, auth)
    \/ withdraw_fees(Admin, Principals)
    \/ pause(Principals)
    \/ unpause(Principals)

SpecOverflow == Init /\ [][NextOverflow]_vars

QueryBatchInputs == {<<1>>, <<2, 1>>}

NextQuery ==
    \/ initialize(Admin, "usdc", 250)
    \/ register_agent(Agent, Principals)
    \/ update_fee(1000, Principals)
    \/ \E amount \in AmountInputs, expiry \in ExpiryInputs :
          /\ counter < MaxRemittances
          /\ create_remittance(Sender, Agent, amount, expiry, Principals)
    \/ \E id \in IdInputs : confirm_payout(id, Principals)
    \/ \E id \in IdInputs : cancel_remittance(id, Principals)
    \/ \E ids \in QueryBatchInputs, auth \in BatchAuthInputs :
          batch_settle(ids, auth)
    \/ \E id \in IdInputs : external_reset_status(id)
    \/ \E id \in IdInputs : get_remittance(id)

SpecQuery == Init /\ [][NextQuery]_vars

\* the fields of a record that are fixed at creation
Particulars(r) == <<r.id, r.sender, r.agent, r.amount, r.fee, r.expiry>>

\* C25: a remittance is never deleted and only its status is ever mutated: a
\* successful create_remittance stores under the id it returns the sender,
\* agent, amount, fee and expiry of the call; every step keeps every stored
\* record with the same id, sender, agent, amount, fee and expiry;
\* get_remittance of a created id succeeds and returns the stored record,
\* get_remittance of an id never created fails with RemittanceNotFound, and
\* get_remittance changes no state.
C25_RecordsPermanent ==
    /\ [][\A amount \in AmountInputs, expiry \in ExpiryInputs :
             (/\ create_remittance(Sender, Agent, amount, expiry, Principals)
              /\ last'.err = Ok)
                => /\ last'.id \notin DOMAIN remittances
                   /\ last'.id \in DOMAIN remittances'
                   /\ Particulars(remittances'[last'.id])
                        = <<last'.id, Sender, Agent, amount,
                            platform_fee(amount, fee_bps), expiry>>]_vars
    /\ [][\A id \in DOMAIN remittances :
             /\ id \in DOMAIN remittances'
             /\ Particulars(remittances'[id]) = Particulars(remittances[id])]_vars
    /\ [][\A id \in IdInputs :
             get_remittance(id)
                => /\ UNCHANGED store
                   /\ IF id \in 1..counter
                      THEN /\ last'.err = Ok
                           /\ last'.ret = <<remittances[id]>>
                      ELSE /\ last'.err = "RemittanceNotFound"
                           /\ last'.ret = << >>]_vars

\* get_remittance returned the record of a remittance created with an expiry
\* at the first fee rate, after the rate was changed and the remittance was
\* completed
C25_Witness ==
    /\ last.op = "get_remittance"
    /\ last.err = Ok
    /\ Len(last.ret) = 1
    /\ last.ret[1].status = Completed
    /\ last.ret[1].expiry = 0
    /\ last.ret[1].fee = 25
    /\ fee_bps = 1000


\* C26 as stated: a confirm_payout of a remittance that an earlier
\* confirm_payout completed, its status untouched since, fails with
\* InvalidStatus and transfers nothing (here even granted that the call
\* carries every authorization).
C26_Original ==
    [][\A id \in DOMAIN remittances :
          (StatusOf(id) = Completed /\ confirm_payout(id, Principals))
             => (last'.err = "InvalidStatus" /\ UNCHANGED balance)]_vars

\* C26 as amended: a confirm_payout of a remittance that an earlier
\* confirm_payout completed, its status untouched since, always fails and
\* changes nothing; on an unpaused contract and with the agent's
\* authorization the error is InvalidStatus, on a paused contract it is
\* ContractPaused.
C26_SecondConfirmInvalidStatus ==
    [][\A id \in DOMAIN remittances, auth \in AuthSubsetInputs :
          (StatusOf(id) = Completed /\ confirm_payout(id, auth))
             => /\ last'.err # Ok
                /\ UNCHANGED store
                /\ paused => last'.err = "ContractPaused"
                /\ (~paused /\ Agent \in auth)
                      => last'.err = "InvalidStatus"]_vars

\* the agent's second confirm_payout of a completed remittance was refused
\* with InvalidStatus, the payout of the first call with the agent
C26_Witness ==
    /\ last.op = "confirm_payout"
    /\ last.err = "InvalidStatus"
    /\ Agent \in last.auth
    /\ StatusOf(last.id) = Completed
    /\ last.id \in settlement_hash
    /\ balance[Agent] > 0
    /\ ~paused


(***************************************************************************)
(* SpecBatch: remittances of two agents, each with its own amount, created *)
(* at two fee rates and settled singly or in batches of up to two entries  *)
(* in either order, or cancelled.                                          *)
(***************************************************************************)
BatchAgentInputs == {Agent, Admin}

BatchAmountOf(agent) == IF agent = Agent THEN 400 ELSE 1000

NextBatch ==
    \/ initialize(Admin, "usdc", 250)
    \/ \E agent \in BatchAgentInputs : register_agent(agent, Principals)
    \/ update_fee(1000, Principals)
    \/ \E agent \in BatchAgentInputs :
          /\ counter < MaxRemittances
          /\ create_remittance(Sender, agent, BatchAmountOf(agent), None,
                               Principals)
    \/ confirm_payout(1, Principals)
    \/ \E id \in IdInputs : cancel_remittance(id, Principals)
    \/ \E ids \in BatchInputs, auth \in BatchAuthInputs : batch_settle(ids, auth)

SpecBatch == Init /\ [][NextBatch]_vars

PayoutOf(r) == r.amount - r.fee

\* the listed ids whose remittance is to be paid out to the account a
PaidTo(ids, a) == {id \in Range(ids) : remittances[id].agent = a}

\* C27: a successful batch_settle of the list ids sets every listed
\* remittance to Completed and sets its settlement mark, moves amount - fee
\* of each from custody to the agent of that remittance, adds exactly the sum
\* of the listed fees to accumulated_fees and returns settled_ids equal to
\* ids, in the order given; remittances not in the list are unchanged.
C27_BatchEffect ==
    [][\A ids \in BatchInputs :
          (last'.op = "batch_settle" /\ last'.ids = ids /\ last'.err = Ok)
             => /\ DOMAIN remittances' = DOMAIN remittances
                /\ \A id \in Range(ids) :
                      /\ id \in DOMAIN remittances
                      /\ remittances'[id] =
                            [remittances[id] EXCEPT !.status = Completed]
                /\ \A id \in DOMAIN remittances \ Range(ids) :
                      remittances'[id] = remittances[id]
                /\ settlement_hash' = settlement_hash \cup Range(ids)
                /\ balance'[Contract] =
                      balance[Contract] - SumOver(Range(ids), PayoutOf, 0)
                /\ \A a \in Accounts \ {Contract} :
                      balance'[a] =
                         balance[a] + SumOver(PaidTo(ids, a), PayoutOf, 0)
                /\ accumulated_fees' =
                      accumulated_fees + SumOver(Range(ids), FeeOf, 0)
                /\ last'.settled = ids
                /\ UNCHANGED <<admin, usdc_token, fee_bps, counter, paused,
                               agent_registered>>]_vars

\* a batch of two remittances of different agents, amounts and fee rates was
\* settled in the order 2, 1, after which custody holds exactly the fees
C27_Witness ==
    /\ last.op = "batch_settle"
    /\ last.err = Ok
    /\ last.settled = <<2, 1>>
    /\ remittances[1].agent # remittances[2].agent
    /\ remittances[1].amount # remittances[2].amount
    /\ remittances[1].fee * remittances[2].amount
          # remittances[2].fee * remittances[1].amount
    /\ StatusOf(1) = Completed /\ StatusOf(2) = Completed
    /\ balance[Contract] = accumulated_fees


\* the part of the state that settlement writes
SettleState ==
    [remittances |-> remittances, settlement_hash |-> settlement_hash,
     balance |-> balance, accumulated_fees |-> accumulated_fees]

\* confirm_payout called for ids[i], ids[i+1], ... in turn from the settlement
\* state of res, each call carrying every authorization; it stops at the
\* first call that fails
RECURSIVE ConfirmEach(_, _, _)
ConfirmEach(res, ids, i) ==
    IF res.err # Ok \/ i > Len(ids) THEN res
    ELSE ConfirmEach(confirm_payout_in(res.st, ids[i], Principals), ids, i + 1)

Reversed(q) == [i \in 1..Len(q) |-> q[Len(q) + 1 - i]]

\* what a batch_settle of ids that passes both phases leaves
BatchOutcome(ids) ==
    LET phase2 == batch_execute(batch_validate(ids).validated)
    IN  [remittances |-> phase2.remittances,
         settlement_hash |-> phase2.settlement_hash,
         balance |-> phase2.balance,
         accumulated_fees |-> batch_new_fees(phase2.total_fees)]

\* C28: batch and single settlement end in the same state: a successful
\* batch_settle of a list leaves the remittance statuses, settlement marks,
\* balances and accumulated_fees that confirm_payout, called once for each id
\* of the list by its agent, leaves, in the order of the list and in the
\* opposite order, every one of these calls succeeding; and batch_settle of
\* the list in the opposite order succeeds as well and leaves the same state.
\* (The first conjunct ties confirm_payout_in to the confirm_payout step.)
C28_BatchIsConfirmEach ==
    /\ [][last'.op = "confirm_payout"
             => LET res == confirm_payout_in(SettleState, last'.id,
                                             last'.auth)
                IN  res.err = last'.err /\ res.st = SettleState']_vars
    /\ [][\A ids \in BatchInputs :
             (last'.op = "batch_settle" /\ last'.ids = ids /\ last'.err = Ok)
                => /\ \A order \in {ids, Reversed(ids)} :
                         LET res == ConfirmEach([err |-> Ok, st |-> SettleState],
                                                order, 1)
                         IN  res.err = Ok /\ res.st = SettleState'
                   /\ batch_validate(Reversed(ids)).err = Ok
                   /\ BatchOutcome(Reversed(ids)) = SettleState'
                   /\ BatchOutcome(ids) = SettleState']_vars

\* a batch of two remittances of different agents and fees was settled in
\* the order 1, 2: both agents hold their payout and the fees of both are
\* accumulated
C28_Witness ==
    /\ last.op = "batch_settle"
    /\ last.err = Ok
    /\ last.settled = <<1, 2>>
    /\ remittances[1].agent # remittances[2].agent
    /\ remittances[1].fee # remittances[2].fee
    /\ balance[remittances[1].agent] = PayoutOf(remittances[1])
    /\ balance[remittances[2].agent] = PayoutOf(remittances[2])
    /\ accumulated_fees = remittances[1].fee + remittances[2].fee


(***************************************************************************)
(* SpecConfig: the contract initialized and re-configured with fee rates   *)
(* in and out of range, remittances created, settled singly or in a batch  *)
(* and cancelled, and the fees withdrawn.                                  *)
(***************************************************************************)
ConfigFeeBpsInputs == {0, 250, 10000, 10001}

NextConfig ==
    \/ \E fee \in ConfigFeeBpsInputs : initialize(Admin, "usdc", fee)
    \/ register_agent(Agent, Principals)
    \/ \E fee \in ConfigFeeBpsInputs, auth \in AuthInputs : update_fee(fee, auth)
    \/ \E amount \in AmountInputs :
          /\ counter < MaxRemittances
          /\ create_remittance(Sender, Agent, amount, None, Principals)
    \/ \E id \in IdInputs : confirm_payout(id, Principals)
    \/ \E id \in IdInputs : cancel_remittance(id, Principals)
    \/ \E ids \in QueryBatchInputs, auth \in BatchAuthInputs :
          batch_settle(ids, auth)
    \/ withdraw_fees(Admin, Principals)

SpecConfig == Init /\ [][NextConfig]_vars

\* C29: in every state after initialize, fee_bps is within 0..10000 and
\* accumulated_fees is at least 0; and the remittance counter never decreases
\* from one state to the next.
C29_ConfigInvariants ==
    /\ [](has_admin => /\ fee_bps \in 0..10000
                       /\ accumulated_fees >= 0
                       /\ counter >= 0)
    /\ [][counter' >= counter]_vars

\* the admin's update to the rate 10001 was refused on a contract at the
\* rate 10000 that holds fees and has created remittances
C29_Witness ==
    /\ last.op = "update_fee"
    /\ last.arg = 10001
    /\ last.err = "InvalidFeeBps"
    /\ fee_bps = 10000
    /\ accumulated_fees > 0
    /\ counter = MaxRemittances


\* C30: once the settlement mark of an id is set, no value leaves custody on
\* behalf of that id any more: a confirm_payout or a cancel_remittance of the
\* id, or a batch_settle whose list holds it, leaves every balance as it was,
\* also after an external write has put the status back to Pending.
C30_MarkedIdPaysNothing ==
    [][\A id \in settlement_hash :
          (\/ last'.op \in {"confirm_payout", "cancel_remittance"}
                /\ last'.id = id
           \/ last'.op = "batch_settle" /\ id \in Range(last'.ids))
             => balance' = balance]_vars


(***************************************************************************)
(* SpecOrder: remittances with and without an expiry, the ledger clock     *)
(* advancing, the contract paused and unpaused, a stored status put back   *)
(* to Pending from outside, and confirm_payout called on known and unknown *)
(* ids with and without the agent's authorization.                         *)
(***************************************************************************)
OrderAmountInputs == {1000}

NextOrder ==
    \/ initialize(Admin, "usdc", 250)
    \/ register_agent(Agent, Principals)
    \/ \E amount \in OrderAmountInputs, expiry \in ExpiryInputs :
          /\ counter < MaxRemittances
          /\ create_remittance(Sender, Agent, amount, expiry, Principals)
    \/ \E id \in IdInputs, auth \in AuthInputs : confirm_payout(id, auth)
    \/ \E id \in IdInputs : cancel_remittance(id, Principals)
    \/ pause(Principals)
    \/ unpause(Principals)
    \/ \E id \in IdInputs : external_reset_status(id)
    \/ advance_time

SpecOrder == Init /\ [][NextOrder]_vars

\* the first check of the order pause, lookup, agent authorization, status,
\* settlement mark, expiry that a confirm_payout of id carrying the
\* authorizations auth fails in the current state; Ok if it passes them all
FirstFailingCheck(id, auth) ==
    IF paused THEN "ContractPaused"
    ELSE IF id \notin 1..counter THEN "RemittanceNotFound"
    ELSE IF remittances[id].agent \notin auth THEN "Unauthorized"
    ELSE IF remittances[id].status # Pending THEN "InvalidStatus"
    ELSE IF id \in settlement_hash THEN "DuplicateSettlement"
    ELSE IF remittances[id].expiry # None /\ now > remittances[id].expiry
    THEN "SettlementExpired"
    ELSE Ok

\* the errors of the six checks
CheckErrors ==
    {"ContractPaused", "RemittanceNotFound", "Unauthorized", "InvalidStatus",
     "DuplicateSettlement", "SettlementExpired"}

\* C31: confirm_payout reports the first failing check in the order pause,
\* lookup, agent authorization, status, settlement mark, expiry (so a paused
\* contract yields ContractPaused even for an unknown id, a non-Pending
\* status InvalidStatus even with a mark set or the expiry passed, a marked
\* Pending remittance DuplicateSettlement even with the expiry passed); when
\* every check passes it reports none of their errors; and a failing call
\* changes no state.
C31_CheckOrder ==
    [][last'.op = "confirm_payout"
          => LET first == FirstFailingCheck(last'.id, last'.auth) IN
             /\ first # Ok => last'.err = first
             /\ first = Ok => last'.err \notin CheckErrors
             /\ last'.err # Ok => UNCHANGED store]_vars

\* a marked remittance whose status was put back to Pending and whose expiry
\* has passed is refused as a duplicate, not as expired
C31_Witness ==
    /\ last.op = "confirm_payout"
    /\ last.err = "DuplicateSettlement"
    /\ StatusOf(last.id) = Pending
    /\ last.id \in settlement_hash
    /\ remittances[last.id].expiry # None
    /\ now > remittances[last.id].expiry


(***************************************************************************)
(* SpecListChecks: SpecBulk with the empty list added to the lists that    *)
(* batch_settle is called on.                                              *)
(***************************************************************************)
NextListChecks ==
    \/ NextBulk
    \/ \E auth \in BatchAuthInputs : batch_settle(<< >>, auth)

SpecListChecks == Init /\ [][NextListChecks]_vars

\* the list-level check that a batch_settle of ids fails, in the order
\* pause, empty, size; Ok if it passes the three
FirstListCheck(ids) ==
    IF paused THEN "ContractPaused"
    ELSE IF Len(ids) = 0 THEN "EmptyBatchSettlement"
    ELSE IF Len(ids) > MAX_BATCH_SIZE THEN "BatchTooLarge"
    ELSE Ok

\* C32: batch_settle applies its list-level checks in the order pause, empty,
\* size and before it looks at any entry: the call reports the first of them
\* that fails, whatever the entries are, with no event emitted and no state
\* changed; a list that passes the three gets none of their errors.
C32_ListChecksFirst ==
    [][last'.op = "batch_settle"
          => LET first == FirstListCheck(last'.ids) IN
             /\ first # Ok => /\ last'.err = first
                              /\ events' = << >>
                              /\ UNCHANGED store
             /\ first = Ok
                   => last'.err \notin {"ContractPaused",
                                        "EmptyBatchSettlement",
                                        "BatchTooLarge"}]_vars

\* an oversized list that repeats an already settled id was refused with
\* BatchTooLarge on an unpaused contract
C32_Witness ==
    /\ last.op = "batch_settle"
    /\ last.err = "BatchTooLarge"
    /\ ~paused
    /\ ~Distinct(last.ids)
    /\ Range(last.ids) \subseteq settlement_hash


\* the ids of the per-remittance completion events of a list of events, in
\* the order of emission
RECURSIVE CompletedIds(_)
CompletedIds(evs) ==
    IF evs = << >> THEN << >>
    ELSE IF Head(evs).kind = "completed"
         THEN <<Head(evs).id>> \o CompletedIds(Tail(evs))
         ELSE CompletedIds(Tail(evs))

KindsOf(evs) == {evs[i].kind : i \in 1..Len(evs)}

\* what C33 says of the events of a batch_settle step on the list ids that
\* passes the pause, empty and size checks
BatchEventsAsClaimed(ids) ==
    /\ Len(events') >= 1
    /\ events'[1] = Event("batch_started", 0, Len(ids), 0)
    /\ SomeEntryRejected(ids)
          => /\ Len(events') = 2
             /\ events'[2].kind = "batch_failed"
             /\ events'[2].x = 16
             /\ KindsOf(events') \cap {"completed", "batch_completed"} = {}
    /\ last'.err = Ok
          => /\ CompletedIds(events') = ids
             /\ events'[Len(events')] =
                   Event("batch_completed", 0, Len(ids), 0)
             /\ \A i \in 1..(Len(events') - 1) :
                   events'[i].kind # "batch_completed"
             /\ "batch_failed" \notin KindsOf(events')

\* C33: a batch_settle call that passes the pause, empty and size checks
\* emits a batch-started event first; if phase 1 rejects an entry, for any
\* reason including an unknown id, a batch-failed event with the reason code
\* follows and no completion and no batch-completed event; if the call
\* succeeds, one completion event per entry in list order is followed by
\* exactly one batch-completed event with the number of settled ids and
\* reason code 0.
C33_BatchEvents ==
    [][(last'.op = "batch_settle" /\ FirstListCheck(last'.ids) = Ok)
          => BatchEventsAsClaimed(last'.ids)]_vars


\* C34: the fee-updated event of a successful update_fee(new) carries as old
\* fee the rate stored immediately before the call and as new fee the value
\* new.
C34_FeeUpdatedEvent ==
    [][(last'.op = "update_fee" /\ last'.err = Ok)
          => events' = <<Event("fee_updated", 0, fee_bps, last'.arg)>>]_vars


\* C35: the fee of a remittance is fixed at creation: an update_fee call
\* leaves every stored remittance as it was, and a successful confirm_payout
\* or batch_settle pays amount minus the stored fee to the agent out of
\* custody and adds the stored fee to accumulated_fees, whatever fee_bps is
\* at that moment.
C35_FeeFixedAtCreation ==
    /\ [][last'.op = "update_fee" => remittances' = remittances]_vars
    /\ [][\A id \in DOMAIN remittances :
             remittances'[id].fee = remittances[id].fee]_vars
    /\ [][(last'.op = "confirm_payout" /\ last'.err = Ok)
             => LET r == remittances[last'.id] IN
                /\ balance' = transfer(balance, Contract, r.agent,
                                       r.amount - r.fee)
                /\ accumulated_fees' = accumulated_fees + r.fee]_vars
    /\ [][(last'.op = "batch_settle" /\ last'.err = Ok)
             => LET ids == Range(last'.ids) IN
                /\ balance'[Contract] =
                      balance[Contract] - SumOver(ids, PayoutOf, 0)
                /\ accumulated_fees' =
                      accumulated_fees + SumOver(ids, FeeOf, 0)]_vars

\* a remittance created at the rate 250 was paid out by confirm_payout after
\* the rate was raised to 1000: the fee kept is the stored one
C35_Witness ==
    /\ last.op = "confirm_payout"
    /\ last.err = Ok
    /\ fee_bps = 1000
    /\ remittances[last.id].fee * 10000 = remittances[last.id].amount * 250
    /\ accumulated_fees = remittances[last.id].fee
    /\ balance[remittances[last.id].agent]
          = remittances[last.id].amount - remittances[last.id].fee


\* C36: in every state reached through the entry points alone, a remittance
\* has a settlement mark if and only if its status is Completed (a Pending or
\* Cancelled remittance has none), and only stored remittances have a mark.
C36_MarkIffCompleted ==
    /\ settlement_hash \subseteq DOMAIN remittances
    /\ \A id \in DOMAIN remittances :
          id \in settlement_hash <=> StatusOf(id) = Completed

\* a Completed remittance with its mark next to a Cancelled one without
C36_Witness ==
    /\ counter = 2
    /\ StatusOf(1) = Cancelled /\ 1 \notin settlement_hash
    /\ StatusOf(2) = Completed /\ 2 \in settlement_hash


\* the step takes the remittance id from Pending to the status `status`
Closes(id, status) ==
    /\ id \in DOMAIN remittances
    /\ StatusOf(id) = Pending
    /\ remittances'[id].status = status

\* C37: at most one transfer out of custody is ever made on behalf of a
\* remittance: a status other than Pending is never left again, and custody
\* pays out only in a confirm_payout that takes its remittance from Pending
\* to Completed and pays amount - fee to the agent, in a cancel_remittance
\* that takes its remittance from Pending to Cancelled and pays amount to the
\* sender, in a batch_settle that takes every listed remittance, each listed
\* once, from Pending to Completed and pays the sum of their amount - fee, or
\* in a withdraw_fees, which pays on behalf of no remittance.
C37_OneTransferOut ==
    /\ [][\A id \in DOMAIN remittances :
             StatusOf(id) # Pending
                => (id \in DOMAIN remittances'
                    /\ remittances'[id].status = StatusOf(id))]_vars
    /\ [][balance' # balance /\ balance'[Contract] <= balance[Contract]
             => \/ last'.op = "withdraw_fees"
                \/ /\ last'.op = "confirm_payout"
                   /\ Closes(last'.id, Completed)
                   /\ balance' = transfer(balance, Contract,
                                    remittances[last'.id].agent,
                                    PayoutOf(remittances[last'.id]))
                \/ /\ last'.op = "cancel_remittance"
                   /\ Closes(last'.id, Cancelled)
                   /\ balance' = transfer(balance, Contract,
                                    remittances[last'.id].sender,
                                    remittances[last'.id].amount)
                \/ /\ last'.op = "batch_settle"
                   /\ Distinct(last'.ids)
                   /\ \A id \in Range(last'.ids) : Closes(id, Completed)
                   /\ balance'[Contract] = balance[Contract]
                         - SumOver(Range(last'.ids), PayoutOf, 0)]_vars

\* one remittance was paid out and the other refunded, custody holds the fee
\* only, and a batch naming the paid-out remittance twice was refused
C37_Witness ==
    /\ counter = 2
    /\ IdsWithStatus(Pending) = {}
    /\ IdsWithStatus(Completed) # {} /\ IdsWithStatus(Cancelled) # {}
    /\ balance[Contract] = accumulated_fees
    /\ last.op = "batch_settle"
    /\ last.err # Ok
    /\ Len(last.ids) = 2
    /\ Range(last.ids) \subseteq IdsWithStatus(Completed)


\* the remittance id is Pending and the ledger time is past its expiry
PendingExpired(id) ==
    /\ id \in DOMAIN remittances
    /\ StatusOf(id) = Pending
    /\ remittances[id].expiry # None
    /\ now > remittances[id].expiry

\* C38: the ledger time never decreases; a Pending remittance whose expiry
\* the ledger time has passed stays Pending in every step except a
\* cancel_remittance of it carrying its sender's authorization, so no
\* confirm_payout and no batch_settle completes it; and that cancel_remittance
\* succeeds, refunds the full amount to the sender and leaves it Cancelled.
C38_ExpiredOnlyCancellable ==
    /\ [][now' >= now]_vars
    /\ [][\A id \in DOMAIN remittances :
             PendingExpired(id)
                => \/ remittances'[id] = remittances[id]
                   \/ /\ last'.op = "cancel_remittance"
                      /\ last'.id = id
                      /\ remittances[id].sender \in last'.auth
                      /\ remittances'[id].status = Cancelled]_vars
    /\ [][(/\ last'.op = "cancel_remittance"
           /\ PendingExpired(last'.id)
           /\ remittances[last'.id].sender \in last'.auth)
             => /\ last'.err = Ok
                /\ remittances'[last'.id].status = Cancelled
                /\ balance' = transfer(balance, Contract,
                                 remittances[last'.id].sender,
                                 remittances[last'.id].amount)]_vars

\* a remittance was cancelled and refunded in full after the ledger time had
\* passed its expiry
C38_Witness ==
    /\ last.op = "cancel_remittance"
    /\ last.err = Ok
    /\ StatusOf(last.id) = Cancelled
    /\ remittances[last.id].expiry # None
    /\ now > remittances[last.id].expiry
    /\ balance[Sender] = Mint
    /\ accumulated_fees = 0


(***************************************************************************)
(* SpecAdmin: the admin operations, with and without the admin's           *)
(* authorization, on a contract that holds Pending, Completed and          *)
(* Cancelled remittances and fees; two agents are registered and removed   *)
(* and the fees are withdrawn to two recipients.                           *)
(***************************************************************************)
WithdrawToInputs == {Admin, Sender}

AdminFeeBpsInputs == {500, 10001}

NextAdmin ==
    \/ initialize(Admin, "usdc", 250)
    \/ \E a \in BatchAgentInputs, auth \in AuthInputs : register_agent(a, auth)
    \/ \E a \in BatchAgentInputs, auth \in AuthInputs : remove_agent(a, auth)
    \/ \E fee \in AdminFeeBpsInputs, auth \in AuthInputs : update_fee(fee, auth)
    \/ \E auth \in AuthInputs : pause(auth)
    \/ \E auth \in AuthInputs : unpause(auth)
    \/ /\ counter < MaxRemittances
       /\ create_remittance(Sender, Agent, 1000, None, Principals)
    \/ \E id \in IdInputs : confirm_payout(id, Principals)
    \/ \E id \in IdInputs : cancel_remittance(id, Principals)
    \/ \E to \in WithdrawToInputs, auth \in AuthInputs : withdraw_fees(to, auth)

SpecAdmin == Init /\ [][NextAdmin]_vars

\* C39: register_agent and remove_agent change at most the registered flag of
\* one agent, update_fee at most fee_bps, pause and unpause at most the
\* paused flag, and each leaves every remittance record, every settlement
\* mark, the counter, accumulated_fees, all balances and the rest of the
\* configuration unchanged; withdraw_fees changes at most accumulated_fees,
\* the custody balance and the balance of its recipient.
C39_AdminFrames ==
    /\ [][last'.op \in {"register_agent", "remove_agent"}
             => /\ UNCHANGED <<admin, usdc_token, fee_bps, counter,
                               accumulated_fees, paused, remittances,
                               settlement_hash, balance>>
                /\ Cardinality({a \in Principals :
                      agent_registered'[a] # agent_registered[a]}) <= 1]_vars
    /\ [][last'.op = "update_fee"
             => UNCHANGED <<admin, usdc_token, counter, accumulated_fees,
                            paused, agent_registered, remittances,
                            settlement_hash, balance>>]_vars
    /\ [][last'.op \in {"pause", "unpause"}
             => UNCHANGED <<admin, usdc_token, fee_bps, counter,
                            accumulated_fees, agent_registered, remittances,
                            settlement_hash, balance>>]_vars
    /\ [][\A to \in WithdrawToInputs, auth \in AuthInputs :
             withdraw_fees(to, auth)
                => /\ UNCHANGED <<admin, usdc_token, fee_bps, counter, paused,
                                  agent_registered, remittances,
                                  settlement_hash>>
                   /\ \A a \in Accounts \ {Contract, to} :
                         balance'[a] = balance[a]]_vars

\* the fees were withdrawn to the sender on a paused contract whose rate was
\* updated and whose second agent is registered: the admin's balance is
\* still 0 and a Pending remittance is still in custody
C39_Witness ==
    /\ last.op = "withdraw_fees"
    /\ last.err = Ok
    /\ accumulated_fees = 0
    /\ balance[Admin] = 0
    /\ balance[Agent] > 0
    /\ IdsWithStatus(Pending) # {}
    /\ balance[Contract] = SumOver(IdsWithStatus(Pending), AmountOf, 0)
    /\ paused
    /\ fee_bps = 500
    /\ agent_registered[Admin]

====
